---- MODULE Spec2Model ----
(***************************************************************************)
(* A model of the message layer of rtsp-rs: header names                   *)
(* (src/header/name.rs) and the request and response builders              *)
(* (src/request.rs, src/response.rs).                                      *)
(*                                                                         *)
(* Byte strings are sequences of byte values (0..255); a Rust str or       *)
(* String is modelled by its bytes.  Option and Result values are records  *)
(* with a tag field.                                                       *)
(***************************************************************************)
EXTENDS Integers, Sequences, FiniteSets, TLC

VARIABLES
  value,        \* header names: the byte string handed to HeaderName::try_from
  result,       \* header names: Result of HeaderName::try_from(value), None before the call
  result_upper, \* header names: Result of HeaderName::try_from(value.to_ascii_uppercase())
  cmp,          \* header names: the last == evaluated, with its operands and outcome
  rq,           \* request::Builder: its fields error, headers, method, uri, version
  rq_ret,       \* what the last call on rq returned: the builder itself, or build's Result
  rq_first,     \* history: the error stored by the earliest failing mutator of rq
  rq_via,       \* "builder", or the accessor through which the Request in rq_ret was last written
  rq_typed,     \* whether rq is a Builder<TypedHeaderMap> (else a Builder<HeaderMap>)
  rs,           \* response::Builder: custom_reason_phrase, error, headers, status_code, version
  rs_ret,       \* what the last call on rs returned
  rs_first,     \* history: the error stored by the earliest failing mutator of rs
  rs_via,       \* "builder", or the accessor through which the Response in rs_ret was last written
  rs_typed,     \* whether rs is a Builder<TypedHeaderMap>
  cl_n,         \* Content-Length: the usize handed to ContentLength::try_from, if any
  cl_typed,     \* Content-Length: Result of try_from(cl_n), or the Default value
  cl_raw,       \* Content-Length: a raw header, received or made by to_header_raw
  cl_decoded,   \* Content-Length: Result of try_from_header_raw(cl_raw)
  cn_fut,       \* connection: per send_request call, its future: state, deadline, CSeq, results
  cn_queue,     \* connection: the writer channel, the calls enqueued and not yet written
  cn_next_cseq, \* connection: the CSeq the writer assigns next
  cn_pending,   \* connection: the pending-request table, entries keyed by cseq
  cn_handle,    \* connection: whether a ConnectionHandle is still alive
  cn_reader,    \* connection: the reader task, "running" or "exited"
  cn_writer,    \* connection: the writer task, "running" or "exited"
  cn_closed,    \* connection: the error that terminated the connection, None while open
  cn_wire,      \* connection: what the writer has put on the wire, in order
  cn_sent,      \* connection history: the requests in the order they were enqueued
  en_msg,       \* encoder: the message handed to the encoder
  en_out        \* encoder: the bytes written to the output buffer, None before encoding

hn_vars == <<value, result, result_upper, cmp>>
rq_vars == <<rq, rq_ret, rq_first, rq_typed, rq_via>>
rs_vars == <<rs, rs_ret, rs_first, rs_typed, rs_via>>
cl_vars == <<cl_n, cl_typed, cl_raw, cl_decoded>>
cn_vars ==
  <<cn_fut, cn_queue, cn_next_cseq, cn_pending, cn_handle, cn_reader, cn_writer, cn_closed,
    cn_wire, cn_sent>>
en_vars == <<en_msg, en_out>>
vars == <<hn_vars, rq_vars, rs_vars, cl_vars, cn_vars, en_vars>>

\* ------------------------------------------------------------------------
\* Option and Result

None == [tag |-> "None"]
Some(x) == [tag |-> "Some", v |-> x]
Ok(x) == [tag |-> "Ok", v |-> x]
Err(e) == [tag |-> "Err", v |-> e]

\* ------------------------------------------------------------------------
\* Bytes

\* u8::to_ascii_lowercase / u8::to_ascii_uppercase (Rust core)
lower_byte(b) == IF b \in 65..90 THEN b + 32 ELSE b
upper_byte(b) == IF b \in 97..122 THEN b - 32 ELSE b

\* [u8]::to_ascii_lowercase, as called at name.rs:263
to_ascii_lowercase(s) == [i \in 1..Len(s) |-> lower_byte(s[i])]

\* [u8]::to_ascii_uppercase
to_ascii_uppercase(s) == [i \in 1..Len(s) |-> upper_byte(s[i])]

\* The token characters: alphanumerics and ! # $ % & ' * + - . ^ _ ` | ~
TokenBytes ==
  (48..57) \cup (65..90) \cup (97..122)
    \cup {33, 35, 36, 37, 38, 39, 42, 43, 45, 46, 94, 95, 96, 124, 126}

\* syntax::is_token: a non-empty run of token characters
is_token(s) == Len(s) > 0 /\ \A i \in 1..Len(s) : s[i] \in TokenBytes

\* header::MAX_HEADER_NAME_LENGTH
MAX_HEADER_NAME_LENGTH == 128

\* ------------------------------------------------------------------------
\* Header names (src/header/name.rs)

MatchArms ==
  {
    [len |-> 3, lit |-> <<118, 105, 97>>, variant |-> "Via"],  \* 3 => b"via" => Ok(Via)
    [len |-> 4, lit |-> <<99, 115, 101, 113>>, variant |-> "CSeq"],  \* 4 => b"cseq" => Ok(CSeq)
    [len |-> 4, lit |-> <<100, 97, 116, 101>>, variant |-> "Date"],  \* 4 => b"date" => Ok(Date)
    [len |-> 4, lit |-> <<102, 114, 111, 109>>, variant |-> "From"],  \* 4 => b"from" => Ok(From)
    [len |-> 4, lit |-> <<109, 116, 97, 103>>, variant |-> "MTag"],  \* 4 => b"mtag" => Ok(MTag)
    [len |-> 5, lit |-> <<97, 108, 108, 111, 119>>, variant |-> "Allow"],  \* 5 => b"allow" => Ok(Allow)
    [len |-> 5, lit |-> <<114, 97, 110, 103, 101>>, variant |-> "Range"],  \* 5 => b"range" => Ok(Range)
    [len |-> 5, lit |-> <<115, 99, 97, 108, 101>>, variant |-> "Scale"],  \* 5 => b"scale" => Ok(Scale)
    [len |-> 5, lit |-> <<115, 112, 101, 101, 100>>, variant |-> "Speed"],  \* 5 => b"speed" => Ok(Speed)
    [len |-> 6, lit |-> <<97, 99, 99, 101, 112, 116>>, variant |-> "Accept"],  \* 6 => b"accept" => Ok(Accept)
    [len |-> 6, lit |-> <<112, 117, 98, 108, 105, 99>>, variant |-> "Public"],  \* 6 => b"public" => Ok(Public)
    [len |-> 6, lit |-> <<115, 101, 114, 118, 101, 114>>, variant |-> "Server"],  \* 6 => b"server" => Ok(Server)
    [len |-> 7, lit |-> <<101, 120, 112, 105, 114, 101, 115>>, variant |-> "Expires"],  \* 7 => b"expires" => Ok(Expires)
    [len |-> 7, lit |-> <<114, 101, 113, 117, 105, 114, 101>>, variant |-> "Require"],  \* 7 => b"require" => Ok(Require)
    [len |-> 7, lit |-> <<115, 101, 115, 115, 105, 111, 110>>, variant |-> "Session"],  \* 7 => b"session" => Ok(Session)
    [len |-> 8, lit |-> <<105, 102, 45, 109, 97, 116, 99, 104>>, variant |-> "IfMatch"],  \* 8 => b"if-match" => Ok(IfMatch)
    [len |-> 8, lit |-> <<108, 111, 99, 97, 116, 105, 111, 110>>, variant |-> "Location"],  \* 8 => b"location" => Ok(Location)
    [len |-> 8, lit |-> <<114, 101, 102, 101, 114, 114, 101, 114>>, variant |-> "Referrer"],  \* 8 => b"referrer" => Ok(Referrer)
    [len |-> 8, lit |-> <<114, 116, 112, 45, 105, 110, 102, 111>>, variant |-> "RTPInfo"],  \* 8 => b"rtp-info" => Ok(RTPInfo)
    [len |-> 9, lit |-> <<98, 97, 110, 100, 119, 105, 100, 116, 104>>, variant |-> "Bandwidth"],  \* 9 => b"bandwidth" => Ok(Bandwidth)
    [len |-> 9, lit |-> <<98, 108, 111, 99, 107, 115, 105, 122, 101>>, variant |-> "Blocksize"],  \* 9 => b"blocksize" => Ok(Blocksize)
    [len |-> 9, lit |-> <<115, 117, 112, 112, 111, 114, 116, 101, 100>>, variant |-> "Supported"],  \* 9 => b"supported" => Ok(Supported)
    [len |-> 9, lit |-> <<116, 105, 109, 101, 115, 116, 97, 109, 112>>, variant |-> "Timestamp"],  \* 9 => b"timestamp" => Ok(Timestamp)
    [len |-> 9, lit |-> <<116, 114, 97, 110, 115, 112, 111, 114, 116>>, variant |-> "Transport"],  \* 9 => b"transport" => Ok(Transport)
    [len |-> 10, lit |-> <<99, 111, 110, 110, 101, 99, 116, 105, 111, 110>>, variant |-> "Connection"],  \* 10 => b"connection" => Ok(Connection)
    [len |-> 10, lit |-> <<115, 101, 101, 107, 45, 115, 116, 121, 108, 101>>, variant |-> "SeekStyle"],  \* 10 => b"seek-style" => Ok(SeekStyle)
    [len |-> 10, lit |-> <<117, 115, 101, 114, 45, 97, 103, 101, 110, 116>>, variant |-> "UserAgent"],  \* 10 => b"user-agent" => Ok(UserAgent)
    [len |-> 11, lit |-> <<109, 101, 100, 105, 97, 45, 114, 97, 110, 103, 101>>, variant |-> "MediaRange"],  \* 11 => b"media-range" => Ok(MediaRange)
    [len |-> 11, lit |-> <<114, 101, 116, 114, 121, 45, 97, 102, 116, 101, 114>>, variant |-> "RetryAfter"],  \* 11 => b"retry-after" => Ok(RetryAfter)
    [len |-> 11, lit |-> <<117, 110, 115, 117, 112, 112, 111, 114, 116, 101, 100>>, variant |-> "Unsupported"],  \* 11 => b"unsupported" => Ok(Unsupported)
    [len |-> 12, lit |-> <<99, 111, 110, 116, 101, 110, 116, 45, 98, 97, 115, 101>>, variant |-> "ContentBase"],  \* 12 => b"content-base" => Ok(ContentBase)
    [len |-> 12, lit |-> <<99, 111, 110, 116, 101, 110, 116, 45, 116, 121, 112, 101>>, variant |-> "ContentType"],  \* 12 => b"content-type" => Ok(ContentType)
    [len |-> 13, lit |-> <<97, 99, 99, 101, 112, 116, 45, 114, 97, 110, 103, 101, 115>>, variant |-> "AcceptRanges"],  \* 13 => b"accept-ranges" => Ok(AcceptRanges)
    [len |-> 13, lit |-> <<97, 117, 116, 104, 111, 114, 105, 122, 97, 116, 105, 111, 110>>, variant |-> "Authorization"],  \* 13 => b"authorization" => Ok(Authorization)
    [len |-> 13, lit |-> <<99, 97, 99, 104, 101, 45, 99, 111, 110, 116, 114, 111, 108>>, variant |-> "CacheControl"],  \* 13 => b"cache-control" => Ok(CacheControl)
    [len |-> 13, lit |-> <<105, 102, 45, 110, 111, 110, 101, 45, 109, 97, 116, 99, 104>>, variant |-> "IfNoneMatch"],  \* 13 => b"if-none-match" => Ok(IfNoneMatch)
    [len |-> 13, lit |-> <<108, 97, 115, 116, 45, 109, 111, 100, 105, 102, 105, 101, 100>>, variant |-> "LastModified"],  \* 13 => b"last-modified" => Ok(LastModified)
    [len |-> 13, lit |-> <<110, 111, 116, 105, 102, 121, 45, 114, 101, 97, 115, 111, 110>>, variant |-> "NotifyReason"],  \* 13 => b"notify-reason" => Ok(NotifyReason)
    [len |-> 13, lit |-> <<112, 114, 111, 120, 121, 45, 114, 101, 113, 117, 105, 114, 101>>, variant |-> "ProxyRequire"],  \* 13 => b"proxy-require" => Ok(ProxyRequire)
    [len |-> 14, lit |-> <<99, 111, 110, 116, 101, 110, 116, 45, 108, 101, 110, 103, 116, 104>>, variant |-> "ContentLength"],  \* 14 => b"content-length" => Ok(ContentLength)
    [len |-> 14, lit |-> <<114, 101, 113, 117, 101, 115, 116, 45, 115, 116, 97, 116, 117, 115>>, variant |-> "RequestStatus"],  \* 14 => b"request-status" => Ok(RequestStatus)
    [len |-> 15, lit |-> <<97, 99, 99, 101, 112, 116, 45, 101, 110, 99, 111, 100, 105, 110, 103>>, variant |-> "AcceptEncoding"],  \* 15 => b"accept-encoding" => Ok(AcceptEncoding)
    [len |-> 15, lit |-> <<97, 99, 99, 101, 112, 116, 45, 108, 97, 110, 103, 117, 97, 103, 101>>, variant |-> "AcceptLanguage"],  \* 15 => b"accept-language" => Ok(AcceptLanguage)
    [len |-> 15, lit |-> <<112, 114, 111, 120, 121, 45, 115, 117, 112, 112, 111, 114, 116, 101, 100>>, variant |-> "ProxySupported"],  \* 15 => b"proxy-supported" => Ok(ProxySupported)
    [len |-> 16, lit |-> <<99, 111, 110, 116, 101, 110, 116, 45, 101, 110, 99, 111, 100, 105, 110, 103>>, variant |-> "ContentEncoding"],  \* 16 => b"content-encoding" => Ok(ContentEncoding)
    [len |-> 16, lit |-> <<99, 111, 110, 116, 101, 110, 116, 45, 108, 97, 110, 103, 117, 97, 103, 101>>, variant |-> "ContentLanguage"],  \* 16 => b"content-language" => Ok(ContentLanguage)
    [len |-> 16, lit |-> <<99, 111, 110, 116, 101, 110, 116, 45, 108, 111, 99, 97, 116, 105, 111, 110>>, variant |-> "ContentLocation"],  \* 16 => b"content-location" => Ok(ContentLocation)
    [len |-> 16, lit |-> <<109, 101, 100, 105, 97, 45, 112, 114, 111, 112, 101, 114, 116, 105, 101, 115>>, variant |-> "MediaProperties"],  \* 16 => b"media-properties" => Ok(MediaProperties)
    [len |-> 16, lit |-> <<116, 101, 114, 109, 105, 110, 97, 116, 101, 45, 114, 101, 97, 115, 111, 110>>, variant |-> "TerminateReason"],  \* 16 => b"terminate-reason" => Ok(TerminateReason)
    [len |-> 16, lit |-> <<119, 119, 119, 45, 97, 117, 116, 104, 101, 110, 116, 105, 99, 97, 116, 101>>, variant |-> "WWWAuthenticate"],  \* 16 => b"www-authenticate" => Ok(WWWAuthenticate)
    [len |-> 17, lit |-> <<105, 102, 45, 109, 111, 100, 105, 102, 105, 101, 100, 45, 115, 105, 110, 99, 101>>, variant |-> "IfModifiedSince"],  \* 17 => b"if-modified-since" => Ok(IfModifiedSince)
    [len |-> 18, lit |-> <<97, 99, 99, 101, 112, 116, 45, 99, 114, 101, 100, 101, 110, 116, 105, 97, 108, 115>>, variant |-> "AcceptCredentials"],  \* 18 => b"accept-credentials" => Ok(AcceptCredentials)
    [len |-> 18, lit |-> <<112, 105, 112, 101, 108, 105, 110, 101, 100, 45, 114, 101, 113, 117, 101, 115, 116, 115>>, variant |-> "PipelinedRequests"],  \* 18 => b"pipelined-requests" => Ok(PipelinedRequests)
    [len |-> 18, lit |-> <<112, 114, 111, 120, 121, 45, 97, 117, 116, 104, 101, 110, 116, 105, 99, 97, 116, 101>>, variant |-> "ProxyAuthenticate"],  \* 18 => b"proxy-authenticate" => Ok(ProxyAuthenticate)
    [len |-> 19, lit |-> <<97, 117, 116, 104, 101, 110, 116, 105, 99, 97, 116, 105, 111, 110, 45, 105, 110, 102, 111>>, variant |-> "AuthenticationInfo"],  \* 19 => b"authentication-info" => Ok(AuthenticationInfo)
    [len |-> 19, lit |-> <<112, 114, 111, 120, 121, 45, 97, 117, 116, 104, 111, 114, 105, 122, 97, 116, 105, 111, 110>>, variant |-> "ProxyAuthorization"],  \* 19 => b"proxy-authorization" => Ok(ProxyAuthorization)
    [len |-> 22, lit |-> <<99, 111, 110, 110, 101, 99, 116, 105, 111, 110, 45, 99, 114, 101, 100, 101, 110, 116, 105, 97, 108, 115>>, variant |-> "ConnectionCredentials"],  \* 22 => b"connection-credentials" => Ok(ConnectionCredentials)
    [len |-> 25, lit |-> <<112, 114, 111, 120, 121, 45, 97, 117, 116, 104, 101, 110, 116, 105, 99, 97, 116, 105, 111, 110, 45, 105, 110, 102, 111>>, variant |-> "ProxyAuthenticationInfo"]  \* 25 => b"proxy-authentication-info" => Ok(ProxyAuthenticationInfo)
  }

StandardHeaders ==
  {
    [variant |-> "Accept", name |-> <<97, 99, 99, 101, 112, 116>>, canonical_name |-> <<65, 99, 99, 101, 112, 116>>],  \* (Accept, "accept", "Accept")
    [variant |-> "AcceptCredentials", name |-> <<97, 99, 99, 101, 112, 116, 45, 99, 114, 101, 100, 101, 110, 116, 105, 97, 108, 115>>, canonical_name |-> <<65, 99, 99, 101, 112, 116, 45, 67, 114, 101, 100, 101, 110, 116, 105, 97, 108, 115>>],  \* (AcceptCredentials, "accept-credentials", "Accept-Credentials")
    [variant |-> "AcceptEncoding", name |-> <<97, 99, 99, 101, 112, 116, 45, 101, 110, 99, 111, 100, 105, 110, 103>>, canonical_name |-> <<65, 99, 99, 101, 112, 116, 45, 69, 110, 99, 111, 100, 105, 110, 103>>],  \* (AcceptEncoding, "accept-encoding", "Accept-Encoding")
    [variant |-> "AcceptLanguage", name |-> <<97, 99, 99, 101, 112, 116, 45, 108, 97, 110, 103, 117, 97, 103, 101>>, canonical_name |-> <<65, 99, 99, 101, 112, 116, 45, 76, 97, 110, 103, 117, 97, 103, 101>>],  \* (AcceptLanguage, "accept-language", "Accept-Language")
    [variant |-> "AcceptRanges", name |-> <<97, 99, 99, 101, 112, 116, 45, 114, 97, 110, 103, 101, 115>>, canonical_name |-> <<65, 99, 99, 101, 112, 116, 45, 82, 97, 110, 103, 101, 115>>],  \* (AcceptRanges, "accept-ranges", "Accept-Ranges")
    [variant |-> "Allow", name |-> <<97, 108, 108, 111, 119>>, canonical_name |-> <<65, 108, 108, 111, 119>>],  \* (Allow, "allow", "Allow")
    [variant |-> "AuthenticationInfo", name |-> <<97, 117, 116, 104, 101, 110, 116, 105, 99, 97, 116, 105, 111, 110, 45, 105, 110, 102, 111>>, canonical_name |-> <<65, 117, 116, 104, 101, 110, 116, 105, 99, 97, 116, 105, 111, 110, 45, 73, 110, 102, 111>>],  \* (AuthenticationInfo, "authentication-info", "Authentication-Info")
    [variant |-> "Authorization", name |-> <<97, 117, 116, 104, 111, 114, 105, 122, 97, 116, 105, 111, 110>>, canonical_name |-> <<65, 117, 116, 104, 111, 114, 105, 122, 97, 116, 105, 111, 110>>],  \* (Authorization, "authorization", "Authorization")
    [variant |-> "Bandwidth", name |-> <<98, 97, 110, 100, 119, 105, 100, 116, 104>>, canonical_name |-> <<66, 97, 110, 100, 119, 105, 100, 116, 104>>],  \* (Bandwidth, "bandwidth", "Bandwidth")
    [variant |-> "Blocksize", name |-> <<98, 108, 111, 99, 107, 115, 105, 122, 101>>, canonical_name |-> <<66, 108, 111, 99, 107, 115, 105, 122, 101>>],  \* (Blocksize, "blocksize", "Blocksize")
    [variant |-> "CacheControl", name |-> <<99, 97, 99, 104, 101, 45, 99, 111, 110, 116, 114, 111, 108>>, canonical_name |-> <<67, 97, 99, 104, 101, 45, 67, 111, 110, 116, 114, 111, 108>>],  \* (CacheControl, "cache-control", "Cache-Control")
    [variant |-> "Connection", name |-> <<99, 111, 110, 110, 101, 99, 116, 105, 111, 110>>, canonical_name |-> <<67, 111, 110, 110, 101, 99, 116, 105, 111, 110>>],  \* (Connection, "connection", "Connection")
    [variant |-> "ConnectionCredentials", name |-> <<99, 111, 110, 110, 101, 99, 116, 105, 111, 110, 45, 99, 114, 101, 100, 101, 110, 116, 105, 97, 108, 115>>, canonical_name |-> <<67, 111, 110, 110, 101, 99, 116, 105, 111, 110, 45, 67, 114, 101, 100, 101, 110, 116, 105, 97, 108, 115>>],  \* (ConnectionCredentials, "connection-credentials", "Connection-Credentials")
    [variant |-> "ContentBase", name |-> <<99, 111, 110, 116, 101, 110, 116, 45, 98, 97, 115, 101>>, canonical_name |-> <<67, 111, 110, 116, 101, 110, 116, 45, 66, 97, 115, 101>>],  \* (ContentBase, "content-base", "Content-Base")
    [variant |-> "ContentEncoding", name |-> <<99, 111, 110, 116, 101, 110, 116, 45, 101, 110, 99, 111, 100, 105, 110, 103>>, canonical_name |-> <<67, 111, 110, 116, 101, 110, 116, 45, 69, 110, 99, 111, 100, 105, 110, 103>>],  \* (ContentEncoding, "content-encoding", "Content-Encoding")
    [variant |-> "ContentLanguage", name |-> <<99, 111, 110, 116, 101, 110, 116, 45, 108, 97, 110, 103, 117, 97, 103, 101>>, canonical_name |-> <<67, 111, 110, 116, 101, 110, 116, 45, 76, 97, 110, 103, 117, 97, 103, 101>>],  \* (ContentLanguage, "content-language", "Content-Language")
    [variant |-> "ContentLength", name |-> <<99, 111, 110, 116, 101, 110, 116, 45, 108, 101, 110, 103, 116, 104>>, canonical_name |-> <<67, 111, 110, 116, 101, 110, 116, 45, 76, 101, 110, 103, 116, 104>>],  \* (ContentLength, "content-length", "Content-Length")
    [variant |-> "ContentLocation", name |-> <<99, 111, 110, 116, 101, 110, 116, 45, 108, 111, 99, 97, 116, 105, 111, 110>>, canonical_name |-> <<67, 111, 110, 116, 101, 110, 116, 45, 76, 111, 99, 97, 116, 105, 111, 110>>],  \* (ContentLocation, "content-location", "Content-Location")
    [variant |-> "ContentType", name |-> <<99, 111, 110, 116, 101, 110, 116, 45, 116, 121, 112, 101>>, canonical_name |-> <<67, 111, 110, 116, 101, 110, 116, 45, 84, 121, 112, 101>>],  \* (ContentType, "content-type", "Content-Type")
    [variant |-> "CSeq", name |-> <<99, 115, 101, 113>>, canonical_name |-> <<67, 83, 101, 113>>],  \* (CSeq, "cseq", "CSeq")
    [variant |-> "Date", name |-> <<100, 97, 116, 101>>, canonical_name |-> <<68, 97, 116, 101>>],  \* (Date, "date", "Date")
    [variant |-> "Expires", name |-> <<101, 120, 112, 105, 114, 101, 115>>, canonical_name |-> <<69, 120, 112, 105, 114, 101, 115>>],  \* (Expires, "expires", "Expires")
    [variant |-> "From", name |-> <<102, 114, 111, 109>>, canonical_name |-> <<70, 114, 111, 109>>],  \* (From, "from", "From")
    [variant |-> "IfMatch", name |-> <<105, 102, 45, 109, 97, 116, 99, 104>>, canonical_name |-> <<73, 102, 45, 77, 97, 116, 99, 104>>],  \* (IfMatch, "if-match", "If-Match")
    [variant |-> "IfModifiedSince", name |-> <<105, 102, 45, 109, 111, 100, 105, 102, 105, 101, 100, 45, 115, 105, 110, 99, 101>>, canonical_name |-> <<73, 102, 45, 77, 111, 100, 105, 102, 105, 101, 100, 45, 83, 105, 110, 99, 101>>],  \* (IfModifiedSince, "if-modified-since", "If-Modified-Since")
    [variant |-> "IfNoneMatch", name |-> <<105, 102, 45, 110, 111, 110, 101, 45, 109, 97, 116, 99, 104>>, canonical_name |-> <<73, 102, 45, 78, 111, 110, 101, 45, 77, 97, 116, 99, 104>>],  \* (IfNoneMatch, "if-none-match", "If-None-Match")
    [variant |-> "LastModified", name |-> <<108, 97, 115, 116, 45, 109, 111, 100, 105, 102, 105, 101, 100>>, canonical_name |-> <<76, 97, 115, 116, 45, 77, 111, 100, 105, 102, 105, 101, 100>>],  \* (LastModified, "last-modified", "Last-Modified")
    [variant |-> "Location", name |-> <<108, 111, 99, 97, 116, 105, 111, 110>>, canonical_name |-> <<76, 111, 99, 97, 116, 105, 111, 110>>],  \* (Location, "location", "Location")
    [variant |-> "MediaProperties", name |-> <<109, 101, 100, 105, 97, 45, 112, 114, 111, 112, 101, 114, 116, 105, 101, 115>>, canonical_name |-> <<77, 101, 100, 105, 97, 45, 80, 114, 111, 112, 101, 114, 116, 105, 101, 115>>],  \* (MediaProperties, "media-properties", "Media-Properties")
    [variant |-> "MediaRange", name |-> <<109, 101, 100, 105, 97, 45, 114, 97, 110, 103, 101>>, canonical_name |-> <<77, 101, 100, 105, 97, 45, 82, 97, 110, 103, 101>>],  \* (MediaRange, "media-range", "Media-Range")
    [variant |-> "MTag", name |-> <<109, 116, 97, 103>>, canonical_name |-> <<77, 84, 97, 103>>],  \* (MTag, "mtag", "MTag")
    [variant |-> "NotifyReason", name |-> <<110, 111, 116, 105, 102, 121, 45, 114, 101, 97, 115, 111, 110>>, canonical_name |-> <<78, 111, 116, 105, 102, 121, 45, 82, 101, 97, 115, 111, 110>>],  \* (NotifyReason, "notify-reason", "Notify-Reason")
    [variant |-> "PipelinedRequests", name |-> <<112, 105, 112, 101, 108, 105, 110, 101, 100, 45, 114, 101, 113, 117, 101, 115, 116, 115>>, canonical_name |-> <<80, 105, 112, 101, 108, 105, 110, 101, 100, 45, 82, 101, 113, 117, 101, 115, 116, 115>>],  \* (PipelinedRequests, "pipelined-requests", "Pipelined-Requests")
    [variant |-> "ProxyAuthenticate", name |-> <<112, 114, 111, 120, 121, 45, 97, 117, 116, 104, 101, 110, 116, 105, 99, 97, 116, 101>>, canonical_name |-> <<80, 114, 111, 120, 121, 45, 65, 117, 116, 104, 101, 110, 116, 105, 99, 97, 116, 101>>],  \* (ProxyAuthenticate, "proxy-authenticate", "Proxy-Authenticate")
    [variant |-> "ProxyAuthenticationInfo", name |-> <<112, 114, 111, 120, 121, 45, 97, 117, 116, 104, 101, 110, 116, 105, 99, 97, 116, 105, 111, 110, 45, 105, 110, 102, 111>>, canonical_name |-> <<80, 114, 111, 120, 121, 45, 65, 117, 116, 104, 101, 110, 116, 105, 99, 97, 116, 105, 111, 110, 45, 73, 110, 102, 111>>],  \* (ProxyAuthenticationInfo, "proxy-authentication-info", "Proxy-Authentication-Info")
    [variant |-> "ProxyAuthorization", name |-> <<112, 114, 111, 120, 121, 45, 97, 117, 116, 104, 111, 114, 105, 122, 97, 116, 105, 111, 110>>, canonical_name |-> <<80, 114, 111, 120, 121, 45, 65, 117, 116, 104, 111, 114, 105, 122, 97, 116, 105, 111, 110>>],  \* (ProxyAuthorization, "proxy-authorization", "Proxy-Authorization")
    [variant |-> "ProxyRequire", name |-> <<112, 114, 111, 120, 121, 45, 114, 101, 113, 117, 105, 114, 101>>, canonical_name |-> <<80, 114, 111, 120, 121, 45, 82, 101, 113, 117, 105, 114, 101>>],  \* (ProxyRequire, "proxy-require", "Proxy-Require")
    [variant |-> "ProxySupported", name |-> <<112, 114, 111, 120, 121, 45, 115, 117, 112, 112, 111, 114, 116, 101, 100>>, canonical_name |-> <<80, 114, 111, 120, 121, 45, 83, 117, 112, 112, 111, 114, 116, 101, 100>>],  \* (ProxySupported, "proxy-supported", "Proxy-Supported")
    [variant |-> "Public", name |-> <<112, 117, 98, 108, 105, 99>>, canonical_name |-> <<80, 117, 98, 108, 105, 99>>],  \* (Public, "public", "Public")
    [variant |-> "Range", name |-> <<114, 97, 110, 103, 101>>, canonical_name |-> <<82, 97, 110, 103, 101>>],  \* (Range, "range", "Range")
    [variant |-> "Referrer", name |-> <<114, 101, 102, 101, 114, 114, 101, 114>>, canonical_name |-> <<82, 101, 102, 101, 114, 114, 101, 114>>],  \* (Referrer, "referrer", "Referrer")
    [variant |-> "RequestStatus", name |-> <<114, 101, 113, 117, 101, 115, 116, 45, 115, 116, 97, 116, 117, 115>>, canonical_name |-> <<82, 101, 113, 117, 101, 115, 116, 45, 83, 116, 97, 116, 117, 115>>],  \* (RequestStatus, "request-status", "Request-Status")
    [variant |-> "Require", name |-> <<114, 101, 113, 117, 105, 114, 101>>, canonical_name |-> <<82, 101, 113, 117, 105, 114, 101>>],  \* (Require, "require", "Require")
    [variant |-> "RetryAfter", name |-> <<114, 101, 116, 114, 121, 45, 97, 102, 116, 101, 114>>, canonical_name |-> <<82, 101, 116, 114, 121, 45, 65, 102, 116, 101, 114>>],  \* (RetryAfter, "retry-after", "Retry-After")
    [variant |-> "RTPInfo", name |-> <<114, 116, 112, 45, 105, 110, 102, 111>>, canonical_name |-> <<82, 84, 80, 45, 73, 110, 102, 111>>],  \* (RTPInfo, "rtp-info", "RTP-Info")
    [variant |-> "Scale", name |-> <<115, 99, 97, 108, 101>>, canonical_name |-> <<83, 99, 97, 108, 101>>],  \* (Scale, "scale", "Scale")
    [variant |-> "SeekStyle", name |-> <<115, 101, 101, 107, 45, 115, 116, 121, 108, 101>>, canonical_name |-> <<83, 101, 101, 107, 45, 83, 116, 121, 108, 101>>],  \* (SeekStyle, "seek-style", "Seek-Style")
    [variant |-> "Server", name |-> <<115, 101, 114, 118, 101, 114>>, canonical_name |-> <<83, 101, 114, 118, 101, 114>>],  \* (Server, "server", "Server")
    [variant |-> "Session", name |-> <<115, 101, 115, 115, 105, 111, 110>>, canonical_name |-> <<83, 101, 115, 115, 105, 111, 110>>],  \* (Session, "session", "Session")
    [variant |-> "Speed", name |-> <<115, 112, 101, 101, 100>>, canonical_name |-> <<83, 112, 101, 101, 100>>],  \* (Speed, "speed", "Speed")
    [variant |-> "Supported", name |-> <<115, 117, 112, 112, 111, 114, 116, 101, 100>>, canonical_name |-> <<83, 117, 112, 112, 111, 114, 116, 101, 100>>],  \* (Supported, "supported", "Supported")
    [variant |-> "TerminateReason", name |-> <<116, 101, 114, 109, 105, 110, 97, 116, 101, 45, 114, 101, 97, 115, 111, 110>>, canonical_name |-> <<84, 101, 114, 109, 105, 110, 97, 116, 101, 45, 82, 101, 97, 115, 111, 110>>],  \* (TerminateReason, "terminate-reason", "Terminate-Reason")
    [variant |-> "Timestamp", name |-> <<116, 105, 109, 101, 115, 116, 97, 109, 112>>, canonical_name |-> <<84, 105, 109, 101, 115, 116, 97, 109, 112>>],  \* (Timestamp, "timestamp", "Timestamp")
    [variant |-> "Transport", name |-> <<116, 114, 97, 110, 115, 112, 111, 114, 116>>, canonical_name |-> <<84, 114, 97, 110, 115, 112, 111, 114, 116>>],  \* (Transport, "transport", "Transport")
    [variant |-> "Unsupported", name |-> <<117, 110, 115, 117, 112, 112, 111, 114, 116, 101, 100>>, canonical_name |-> <<85, 110, 115, 117, 112, 112, 111, 114, 116, 101, 100>>],  \* (Unsupported, "unsupported", "Unsupported")
    [variant |-> "UserAgent", name |-> <<117, 115, 101, 114, 45, 97, 103, 101, 110, 116>>, canonical_name |-> <<85, 115, 101, 114, 45, 65, 103, 101, 110, 116>>],  \* (UserAgent, "user-agent", "User-Agent")
    [variant |-> "Via", name |-> <<118, 105, 97>>, canonical_name |-> <<86, 105, 97>>],  \* (Via, "via", "Via")
    [variant |-> "WWWAuthenticate", name |-> <<119, 119, 119, 45, 97, 117, 116, 104, 101, 110, 116, 105, 99, 97, 116, 101>>, canonical_name |-> <<87, 87, 87, 45, 65, 117, 116, 104, 101, 110, 116, 105, 99, 97, 116, 101>>]  \* (WWWAuthenticate, "www-authenticate", "WWW-Authenticate")
  }

StandardNames == {h.name : h \in StandardHeaders}

\* A standard variant of enum HeaderName (it carries no data)
Standard(variant) == [variant |-> variant, ext |-> <<>>]

\* Extension with the two names stored in the wrong order
Extension_swapped(n, n_lower) == [variant |-> "Extension", ext |-> <<n_lower, n>>]

\* HeaderName::Extension(ExtensionHeaderName(name, name_lower))
Extension(n, n_lower) == [variant |-> "Extension", ext |-> <<n, n_lower>>]

\* HeaderName::as_str
as_str(h) ==
  IF h.variant = "Extension"
    THEN h.ext[2]
    ELSE (CHOOSE s \in StandardHeaders : s.variant = h.variant).name

\* HeaderName::canonical_name
canonical_name(h) ==
  IF h.variant = "Extension"
    THEN h.ext[1]
    ELSE (CHOOSE s \in StandardHeaders : s.variant = h.variant).canonical_name

\* HeaderName::extension without the is_token check
extension_unchecked(n, n_lower) == Ok(Extension(n, n_lower))

\* HeaderName::extension
extension(n, n_lower) ==
  IF ~is_token(n) THEN Err("InvalidHeaderName") ELSE Ok(Extension(n, n_lower))

\* try_from matching the input as given instead of its lowercase form
try_from_case_sensitive(v) ==
  IF Len(v) = 0 \/ Len(v) > MAX_HEADER_NAME_LENGTH
    THEN Err("InvalidHeaderName")
    ELSE LET value_lower == to_ascii_lowercase(v)
             arms == {a \in MatchArms : a.len = Len(v) /\ a.lit = v}
         IN  IF arms # {}
               THEN Ok(Standard((CHOOSE a \in arms : TRUE).variant))
               ELSE extension(v, value_lower)

\* <HeaderName as TryFrom<&[u8]>>::try_from
try_from(v) ==
  IF Len(v) = 0 \/ Len(v) > MAX_HEADER_NAME_LENGTH
    THEN Err("InvalidHeaderName")
    ELSE LET value_lower == to_ascii_lowercase(v)
             arms == {a \in MatchArms :
                        a.len = Len(value_lower) /\ a.lit = value_lower}
         IN  IF arms # {}
               THEN Ok(Standard((CHOOSE a \in arms : TRUE).variant))
               ELSE extension(v, value_lower)

\* #[derive(PartialEq)] on struct ExtensionHeaderName(AsciiString, AsciiString):
\* both fields are compared
ExtensionHeaderName_eq(x, y) == x[1] = y[1] /\ x[2] = y[2]

\* #[derive(PartialEq)] on enum HeaderName
HeaderName_eq(a, b) ==
  /\ a.variant = b.variant
  /\ a.variant = "Extension" => ExtensionHeaderName_eq(a.ext, b.ext)

\* == on Result<HeaderName, InvalidHeaderName>
Result_eq(r1, r2) ==
  /\ r1.tag = r2.tag
  /\ r1.tag = "Ok" => HeaderName_eq(r1.v, r2.v)

\* impl PartialEq<str> for HeaderName
HeaderName_eq_str(h, other) == as_str(h) = to_ascii_lowercase(other)

\* impl PartialEq<HeaderName> for str
str_eq_HeaderName(s, other) == to_ascii_lowercase(s) = as_str(other)

\* impl PartialEq<&str> for HeaderName
HeaderName_eq_ref_str(h, other) == as_str(h) = to_ascii_lowercase(other)

\* impl PartialEq<HeaderName> for &str
ref_str_eq_HeaderName(s, other) == to_ascii_lowercase(s) = as_str(other)

\* impl PartialEq<String> for HeaderName
HeaderName_eq_String(h, other) == as_str(h) = other

\* impl PartialEq<HeaderName> for String
String_eq_HeaderName(s, other) == s = as_str(other)

\* A hash is modelled by the sequence of values written to the Hasher: two
\* values hash identically, under every Hasher, exactly when they write the
\* same sequence.

\* Hash for ExtensionHeaderName writing the name as given
ExtensionHeaderName_hash_canonical(x) == <<x[1]>>

\* impl Hash for ExtensionHeaderName: self.1.hash(state)
ExtensionHeaderName_hash(x) == <<x[2]>>

\* #[derive(Hash)] on enum HeaderName: the discriminant, then the fields
HeaderName_hash(h) ==
  IF h.variant = "Extension"
    THEN <<h.variant>> \o ExtensionHeaderName_hash(h.ext)
    ELSE <<h.variant>>

\* Hash for Result<HeaderName, InvalidHeaderName>; InvalidHeaderName is a
\* unit struct with #[derive(Hash)] and writes nothing
Result_hash(r) ==
  IF r.tag = "Ok" THEN <<r.tag>> \o HeaderName_hash(r.v) ELSE <<r.tag>>

\* ------------------------------------------------------------------------
\* Collaborators of the builders: header values, header maps, methods,
\* request URIs, versions, status codes and reason phrases

\* HeaderValue: no control character except \t, and any \r\n is immediately
\* followed by a space or a tab; the empty value is permitted
is_header_value(s) ==
  \A i \in 1..Len(s) :
    \/ s[i] >= 32 /\ s[i] # 127
    \/ s[i] = 9
    \/ s[i] = 13 /\ i + 2 <= Len(s) /\ s[i + 1] = 10 /\ s[i + 2] \in {32, 9}
    \/ s[i] = 10 /\ i > 1 /\ i < Len(s) /\ s[i - 1] = 13 /\ s[i + 1] \in {32, 9}

\* HeaderValue::try_from
HeaderValue_try_from(s) ==
  IF is_header_value(s) THEN Ok(s) ELSE Err("InvalidHeaderValue")

\* HeaderMap::default: the empty map.  A map is the sequence of its entries
\* [name, values] in first-insertion order of the names.
HeaderMap_default == <<>>

\* HeaderMap::append(n, v): v goes after the values already held for n
HeaderMap_append(map, n, v) ==
  IF \E i \in 1..Len(map) : HeaderName_eq(map[i].name, n)
    THEN [i \in 1..Len(map) |->
            IF HeaderName_eq(map[i].name, n)
              THEN [map[i] EXCEPT !.values = Append(@, v)]
              ELSE map[i]]
    ELSE Append(map, [name |-> n, values |-> <<v>>])

RECURSIVE HeaderMap_len(_)
\* The number of values a header map holds
HeaderMap_len(map) ==
  IF map = <<>> THEN 0 ELSE Len(Head(map).values) + HeaderMap_len(Tail(map))

\* Method::try_from: a method is a token
ValidMethods == {"SETUP", "PLAY"}
Method_try_from(m) ==
  IF m \in ValidMethods THEN Ok(m) ELSE Err("InvalidMethod")

\* RequestURIField::try_from: an absolute RTSP URI or the literal *
ValidRequestURIs == {"*", "rtsp://server.com"}
RequestURIField_try_from(u) ==
  IF u \in ValidRequestURIs THEN Ok(u) ELSE Err("InvalidRequestURI")

\* Version::try_from: RTSP/1.0 and RTSP/2.0 are versions
Version_try_from(text) ==
  IF text = "RTSP/2.0" THEN Ok("RTSP20")
  ELSE IF text = "RTSP/1.0" THEN Ok("RTSP10")
  ELSE Err("InvalidVersion")

\* Version::default
Version_default == "RTSP20"

\* The standard status codes used here, with their canonical reason phrases
CanonicalReasons ==
  [code \in {200, 400, 501} |->
     CASE code = 200 -> "OK"
       [] code = 400 -> "Bad Request"
       [] code = 501 -> "Not Implemented"]

\* StatusCode::try_from: a three-digit code 100-599, a standard variant or
\* StatusCode::Extension
StatusCode_try_from(n) ==
  IF n < 100 \/ n > 599 THEN Err("InvalidStatusCode")
  ELSE IF n \in DOMAIN CanonicalReasons
    THEN Ok([code |-> n, kind |-> "Standard"])
    ELSE Ok([code |-> n, kind |-> "Extension"])

\* StatusCode::default: 200 OK
StatusCode_default == [code |-> 200, kind |-> "Standard"]

\* StatusCode::canonical_reason
canonical_reason(status) ==
  IF status.kind = "Standard" THEN Some(CanonicalReasons[status.code]) ELSE None

\* ReasonPhrase::try_from
ValidReasonPhrases == {"Good Response", "OK", "Custom"}
ReasonPhrase_try_from(r) ==
  IF r \in ValidReasonPhrases THEN Ok(r) ELSE Err("InvalidReasonPhrase")

\* ------------------------------------------------------------------------
\* request::Builder<HeaderMap> (src/request.rs)

\* impl Default for request::Builder
request_default ==
  [error |-> None, headers |-> HeaderMap_default, method |-> None,
   uri |-> None, version |-> Version_default]

\* build testing the uri before the method
request_build_uri_first(b, body) ==
  IF b.error.tag = "Some"
    THEN [builder |-> b, ret |-> Err(b.error.v)]
  ELSE IF b.uri.tag = "Some"
    THEN IF b.method.tag = "Some"
           THEN [builder |-> [b EXCEPT !.method = None, !.uri = None,
                                       !.headers = HeaderMap_default],
                 ret |-> Ok([body |-> body, headers |-> b.headers,
                             method |-> b.method.v, uri |-> b.uri.v,
                             version |-> b.version])]
           ELSE [builder |-> [b EXCEPT !.uri = None],
                 ret |-> Err("MissingMethod")]
  ELSE [builder |-> b, ret |-> Err("MissingRequestURI")]

\* build cloning the headers instead of taking them
request_build_keep_headers(b, body) ==
  IF b.error.tag = "Some"
    THEN [builder |-> b, ret |-> Err(b.error.v)]
  ELSE IF b.method.tag = "Some"
    THEN IF b.uri.tag = "Some"
           THEN [builder |-> [b EXCEPT !.method = None, !.uri = None],
                 ret |-> Ok([body |-> body, headers |-> b.headers,
                             method |-> b.method.v, uri |-> b.uri.v,
                             version |-> b.version])]
           ELSE [builder |-> [b EXCEPT !.method = None],
                 ret |-> Err("MissingRequestURI")]
  ELSE [builder |-> b, ret |-> Err("MissingMethod")]

\* build taking the stored error out of the builder as it reports it
request_build_take_error(b, body) ==
  IF b.error.tag = "Some"
    THEN [builder |-> [b EXCEPT !.error = None], ret |-> Err(b.error.v)]
  ELSE IF b.method.tag = "Some"
    THEN IF b.uri.tag = "Some"
           THEN [builder |-> [b EXCEPT !.method = None, !.uri = None,
                                       !.headers = HeaderMap_default],
                 ret |-> Ok([body |-> body, headers |-> b.headers,
                             method |-> b.method.v, uri |-> b.uri.v,
                             version |-> b.version])]
           ELSE [builder |-> [b EXCEPT !.method = None],
                 ret |-> Err("MissingRequestURI")]
  ELSE [builder |-> b, ret |-> Err("MissingMethod")]

\* build testing the method without taking it
request_build_keep_method(b, body) ==
  IF b.error.tag = "Some"
    THEN [builder |-> b, ret |-> Err(b.error.v)]
  ELSE IF b.method.tag = "Some"
    THEN IF b.uri.tag = "Some"
           THEN [builder |-> [b EXCEPT !.method = None, !.uri = None,
                                       !.headers = HeaderMap_default],
                 ret |-> Ok([body |-> body, headers |-> b.headers,
                             method |-> b.method.v, uri |-> b.uri.v,
                             version |-> b.version])]
           ELSE [builder |-> b, ret |-> Err("MissingRequestURI")]
  ELSE [builder |-> b, ret |-> Err("MissingMethod")]

\* request::Builder::build: the builder it leaves and the Result it returns.
\* replace(&mut self.method, None) and replace(&mut self.uri, None) take the
\* fields as they are tested.
request_build(b, body) ==
  IF b.error.tag = "Some"
    THEN [builder |-> b, ret |-> Err(b.error.v)]
  ELSE IF b.method.tag = "Some"
    THEN IF b.uri.tag = "Some"
           THEN [builder |-> [b EXCEPT !.method = None, !.uri = None,
                                       !.headers = HeaderMap_default],
                 ret |-> Ok([body |-> body, headers |-> b.headers,
                             method |-> b.method.v, uri |-> b.uri.v,
                             version |-> b.version])]
           ELSE [builder |-> [b EXCEPT !.method = None],
                 ret |-> Err("MissingRequestURI")]
  ELSE [builder |-> b, ret |-> Err("MissingMethod")]

\* request::Builder::method
request_method(b, m) ==
  LET r == Method_try_from(m)
  IN  IF r.tag = "Ok"
        THEN [b EXCEPT !.method = Some(r.v)]
        ELSE [b EXCEPT !.error = Some("InvalidMethod")]

\* request::Builder::uri
request_uri(b, u) ==
  LET r == RequestURIField_try_from(u)
  IN  IF r.tag = "Ok"
        THEN [b EXCEPT !.uri = Some(r.v)]
        ELSE [b EXCEPT !.error = Some("InvalidRequestURI")]

\* version storing every version it can parse
request_version_any(b, text) ==
  LET r == Version_try_from(text)
  IN  IF r.tag = "Ok" THEN [b EXCEPT !.version = r.v]
      ELSE [b EXCEPT !.error = Some("InvalidVersion")]

\* request::Builder::version
request_version(b, text) ==
  LET r == Version_try_from(text)
  IN  IF r.tag = "Ok" /\ r.v = "RTSP20" THEN [b EXCEPT !.version = r.v]
      ELSE IF r.tag = "Ok" THEN [b EXCEPT !.error = Some("UnsupportedVersion")]
      ELSE [b EXCEPT !.error = Some("InvalidVersion")]

\* header converting the value before the name
request_header_value_first(b, key, val) ==
  LET w == HeaderValue_try_from(val)
  IN  IF w.tag = "Ok"
        THEN LET k == try_from(key)
             IN  IF k.tag = "Ok"
                   THEN [b EXCEPT !.headers = HeaderMap_append(@, k.v, w.v)]
                   ELSE [b EXCEPT !.error = Some("InvalidHeaderName")]
        ELSE [b EXCEPT !.error = Some("InvalidHeaderValue")]

\* request::Builder<HeaderMap>::header
request_header(b, key, val) ==
  LET k == try_from(key)
  IN  IF k.tag = "Ok"
        THEN LET w == HeaderValue_try_from(val)
             IN  IF w.tag = "Ok"
                   THEN [b EXCEPT !.headers = HeaderMap_append(@, k.v, w.v)]
                   ELSE [b EXCEPT !.error = Some("InvalidHeaderValue")]
        ELSE [b EXCEPT !.error = Some("InvalidHeaderName")]

\* ------------------------------------------------------------------------
\* response::Builder<HeaderMap> (src/response.rs)

\* impl Default for response::Builder
response_default ==
  [custom_reason_phrase |-> None, error |-> None,
   headers |-> HeaderMap_default, status_code |-> StatusCode_default,
   version |-> Version_default]

\* build giving an extension code without a reason phrase an empty one
response_build_no_check(b, body) ==
  IF b.error.tag = "Some"
    THEN [builder |-> b, ret |-> Err(b.error.v)]
  ELSE LET reason_phrase ==
             IF b.status_code.kind = "Extension"
               THEN (IF b.custom_reason_phrase.tag = "Some"
                       THEN b.custom_reason_phrase.v ELSE "")
               ELSE canonical_reason(b.status_code).v
       IN  [builder |-> [b EXCEPT !.headers = HeaderMap_default,
                           !.custom_reason_phrase =
                              IF b.status_code.kind = "Extension" THEN None ELSE @],
            ret |-> Ok([body |-> body, headers |-> b.headers,
                        reason_phrase |-> reason_phrase,
                        status_code |-> b.status_code,
                        version |-> b.version])]

\* response::Builder::build: the builder it leaves and the Result it returns.
\* custom_reason_phrase.take() runs for an extension status code only.
response_build(b, body) ==
  IF b.error.tag = "Some"
    THEN [builder |-> b, ret |-> Err(b.error.v)]
  ELSE IF b.status_code.kind = "Extension" /\ b.custom_reason_phrase.tag = "None"
    THEN [builder |-> b, ret |-> Err("MissingReasonPhrase")]
  ELSE LET reason_phrase ==
             IF b.status_code.kind = "Extension"
               THEN b.custom_reason_phrase.v
               ELSE canonical_reason(b.status_code).v
       IN  [builder |-> [b EXCEPT !.headers = HeaderMap_default,
                           !.custom_reason_phrase =
                              IF b.status_code.kind = "Extension" THEN None ELSE @],
            ret |-> Ok([body |-> body, headers |-> b.headers,
                        reason_phrase |-> reason_phrase,
                        status_code |-> b.status_code,
                        version |-> b.version])]

\* response::Builder::reason
response_reason(b, reason_phrase) ==
  IF reason_phrase.tag = "Some"
    THEN LET r == ReasonPhrase_try_from(reason_phrase.v)
         IN  IF r.tag = "Ok"
               THEN [b EXCEPT !.custom_reason_phrase = Some(r.v)]
               ELSE [b EXCEPT !.error = Some("InvalidReasonPhrase")]
    ELSE [b EXCEPT !.custom_reason_phrase = None]

\* response::Builder::status_code
response_status_code(b, n) ==
  LET r == StatusCode_try_from(n)
  IN  IF r.tag = "Ok"
        THEN [b EXCEPT !.status_code = r.v]
        ELSE [b EXCEPT !.error = Some("InvalidStatusCode")]

\* response::Builder::version
response_version(b, text) ==
  LET r == Version_try_from(text)
  IN  IF r.tag = "Ok" /\ r.v = "RTSP20" THEN [b EXCEPT !.version = r.v]
      ELSE IF r.tag = "Ok" THEN [b EXCEPT !.error = Some("UnsupportedVersion")]
      ELSE [b EXCEPT !.error = Some("InvalidVersion")]

\* response::Builder<HeaderMap>::header
response_header(b, key, val) ==
  LET k == try_from(key)
  IN  IF k.tag = "Ok"
        THEN LET w == HeaderValue_try_from(val)
             IN  IF w.tag = "Ok"
                   THEN [b EXCEPT !.headers = HeaderMap_append(@, k.v, w.v)]
                   ELSE [b EXCEPT !.error = Some("InvalidHeaderValue")]
        ELSE [b EXCEPT !.error = Some("InvalidHeaderName")]

\* ------------------------------------------------------------------------
\* Inputs of the header-name operations

MaxShortLen == 3
MaxFullCaseLen == 8

\* Every spelling of s that differs from it in the case of its letters only
AllCases(s) ==
  { [i \in 1..Len(s) |-> IF i \in S THEN upper_byte(s[i]) ELSE s[i]] :
      S \in SUBSET (1..Len(s)) }

Alternating(s) ==
  [i \in 1..Len(s) |-> IF i % 2 = 1 THEN upper_byte(s[i]) ELSE s[i]]

\* s with its last byte replaced: a token of the same length as s
NearMiss(s) == [s EXCEPT ![Len(s)] = IF s[Len(s)] = 120 THEN 122 ELSE 120]

Repeat(b, n) == [i \in 1..n |-> b]

Spellings(h) ==
  {h.name, h.canonical_name, to_ascii_uppercase(h.name), Alternating(h.name)}
    \cup (IF Len(h.name) <= MaxFullCaseLen THEN AllCases(h.name) ELSE {})

\* a A - and two bytes that are no token characters: space and 0xE9
ShortAlphabet == {97, 65, 45, 32, 233}

ShortStrings == UNION {[1..n -> ShortAlphabet] : n \in 1..MaxShortLen}

\* "ext"
ExtName == <<101, 120, 116>>

LongInputs ==
  UNION { {Repeat(120, n), Repeat(88, n), Alternating(Repeat(120, n)),
           Repeat(120, n - 1) \o <<32>>} :
          n \in (MAX_HEADER_NAME_LENGTH - 1)..(MAX_HEADER_NAME_LENGTH + 1) }

Inputs ==
  LongInputs
    \cup ShortStrings
    \cup UNION {Spellings(h) : h \in StandardHeaders}
    \cup {NearMiss(h.name) : h \in StandardHeaders}
    \cup {NearMiss(h.canonical_name) : h \in StandardHeaders}
    \cup AllCases(ExtName)
    \cup {<<>>}

\* The strings a header name made from v is compared with
Texts(v) ==
  {v, to_ascii_lowercase(v), to_ascii_uppercase(v), Alternating(v), NearMiss(v \o <<97>>), ExtName}

NoCmp == [op |-> "none", text |-> <<>>, res |-> FALSE, rev |-> FALSE]

\* ------------------------------------------------------------------------
\* Header-name operations

\* HeaderName::try_from(value)
TryFrom ==
  /\ result.tag = "None"
  /\ result' = try_from(value)
  /\ UNCHANGED <<value, result_upper, cmp, rq_vars, rs_vars, cl_vars, cn_vars, en_vars>>

\* HeaderName::try_from(value.to_ascii_uppercase())
TryFromUpper ==
  /\ result_upper.tag = "None"
  /\ result_upper' = try_from(to_ascii_uppercase(value))
  /\ UNCHANGED <<value, result, cmp, rq_vars, rs_vars, cl_vars, cn_vars, en_vars>>

\* try_from(value) == try_from(value.to_ascii_uppercase())
EqHeaderName ==
  /\ result.tag # "None"
  /\ result_upper.tag # "None"
  /\ cmp' = [op |-> "HeaderName", text |-> to_ascii_uppercase(value),
             res |-> Result_eq(result, result_upper),
             rev |-> Result_eq(result_upper, result)]
  /\ UNCHANGED <<value, result, result_upper, rq_vars, rs_vars, cl_vars, cn_vars, en_vars>>

\* hash(try_from(value)) == hash(try_from(value.to_ascii_uppercase()))
HashBoth ==
  /\ result.tag # "None"
  /\ result_upper.tag # "None"
  /\ cmp' = [op |-> "hash", text |-> to_ascii_uppercase(value),
             res |-> Result_hash(result) = Result_hash(result_upper),
             rev |-> Result_hash(result_upper) = Result_hash(result)]
  /\ UNCHANGED <<value, result, result_upper, rq_vars, rs_vars, cl_vars, cn_vars, en_vars>>

\* h == *t and *t == h, with t: &str
EqStr ==
  /\ result.tag = "Ok"
  /\ \E t \in Texts(value) :
       cmp' = [op |-> "str", text |-> t,
               res |-> HeaderName_eq_str(result.v, t),
               rev |-> str_eq_HeaderName(t, result.v)]
  /\ UNCHANGED <<value, result, result_upper, rq_vars, rs_vars, cl_vars, cn_vars, en_vars>>

\* h == t and t == h, with t: &str
EqRefStr ==
  /\ result.tag = "Ok"
  /\ \E t \in Texts(value) :
       cmp' = [op |-> "&str", text |-> t,
               res |-> HeaderName_eq_ref_str(result.v, t),
               rev |-> ref_str_eq_HeaderName(t, result.v)]
  /\ UNCHANGED <<value, result, result_upper, rq_vars, rs_vars, cl_vars, cn_vars, en_vars>>

\* h == t and t == h, with t: String
EqString ==
  /\ result.tag = "Ok"
  /\ \E t \in Texts(value) :
       cmp' = [op |-> "String", text |-> t,
               res |-> HeaderName_eq_String(result.v, t),
               rev |-> String_eq_HeaderName(t, result.v)]
  /\ UNCHANGED <<value, result, result_upper, rq_vars, rs_vars, cl_vars, cn_vars, en_vars>>

\* ------------------------------------------------------------------------
\* Inputs of the builder operations

MaxHeaderValues == 2

\* What a mutator returns: the builder itself
Self == [tag |-> "Builder"]

MethodInputs == ValidMethods \cup {"BAD METHOD"}
URIInputs == ValidRequestURIs \cup {"not a uri"}
VersionInputs == {"RTSP/2.0", "RTSP/1.0", "HTTP/1.1"}
StatusInputs == {99, 200, 299, 400, 600}
ReasonInputs ==
  {None} \cup {Some(r) : r \in {"Good Response", "OK", "Bad\nPhrase"}}
Bodies == {"", "ab"}

\* "CSeq", "cseq", "Session", "" and "bad key"
HeaderKeyInputs ==
  { <<67, 83, 101, 113>>, <<99, 115, 101, 113>>,
    <<83, 101, 115, 115, 105, 111, 110>>, <<>>,
    <<98, 97, 100, 32, 107, 101, 121>> }

\* "835", "5" and "a\nb"
HeaderValueInputs == { <<56, 51, 53>>, <<53>>, <<97, 10, 98>> }

\* The history of the first error: set by the first mutator that stores one
FirstError(first, after) ==
  IF first.tag = "None" /\ after.error.tag = "Some" THEN after.error ELSE first

\* ------------------------------------------------------------------------
\* Request builder operations

\* A mutator returns the builder; the history records the first error stored
RequestReturnsSelf ==
  /\ rq_ret' = Self
  /\ rq_via' = "builder"
  /\ rq_first' = FirstError(rq_first, rq')
  /\ UNCHANGED <<rq_typed, hn_vars, rs_vars, cl_vars, cn_vars, en_vars>>

RequestMethod ==
  \E m \in MethodInputs :
    /\ rq' = request_method(rq, m)
    /\ RequestReturnsSelf

RequestUri ==
  \E u \in URIInputs :
    /\ rq' = request_uri(rq, u)
    /\ RequestReturnsSelf

RequestVersion ==
  \E text \in VersionInputs :
    /\ rq' = request_version(rq, text)
    /\ RequestReturnsSelf

RequestHeader ==
  /\ ~rq_typed
  /\ HeaderMap_len(rq.headers) < MaxHeaderValues
  /\ \E key \in HeaderKeyInputs, val \in HeaderValueInputs :
       /\ rq' = request_header(rq, key, val)
       /\ RequestReturnsSelf

RequestBuild ==
  \E body \in Bodies :
    /\ rq' = request_build(rq, body).builder
    /\ rq_ret' = request_build(rq, body).ret
    /\ rq_via' = "builder"
    /\ UNCHANGED <<rq_first, rq_typed, hn_vars, rs_vars, cl_vars, cn_vars, en_vars>>

\* ------------------------------------------------------------------------
\* Response builder operations

\* A mutator returns the builder; the history records the first error stored
ResponseReturnsSelf ==
  /\ rs_ret' = Self
  /\ rs_via' = "builder"
  /\ rs_first' = FirstError(rs_first, rs')
  /\ UNCHANGED <<rs_typed, hn_vars, rq_vars, cl_vars, cn_vars, en_vars>>

ResponseReason ==
  \E r \in ReasonInputs :
    /\ rs' = response_reason(rs, r)
    /\ ResponseReturnsSelf

ResponseStatusCode ==
  \E n \in StatusInputs :
    /\ rs' = response_status_code(rs, n)
    /\ ResponseReturnsSelf

ResponseVersion ==
  \E text \in VersionInputs :
    /\ rs' = response_version(rs, text)
    /\ ResponseReturnsSelf

ResponseHeader ==
  /\ ~rs_typed
  /\ HeaderMap_len(rs.headers) < MaxHeaderValues
  /\ \E key \in HeaderKeyInputs, val \in HeaderValueInputs :
       /\ rs' = response_header(rs, key, val)
       /\ ResponseReturnsSelf

ResponseBuild ==
  \E body \in Bodies :
    /\ rs' = response_build(rs, body).builder
    /\ rs_ret' = response_build(rs, body).ret
    /\ rs_via' = "builder"
    /\ UNCHANGED <<rs_first, rs_typed, hn_vars, rq_vars, cl_vars, cn_vars, en_vars>>

\* ------------------------------------------------------------------------
\* header::types::ContentLength
\*
\* A usize is the sequence of its decimal digits (values 0..9), most
\* significant first and without leading zeros; zero is <<0>>.

\* usize::MAX on a 64-bit target: 18446744073709551615
USIZE_MAX == <<1, 8, 4, 4, 6, 7, 4, 4, 0, 7, 3, 7, 0, 9, 5, 5, 1, 6, 1, 5>>

\* pub const MAX_CONTENT_LENGTH: u64 = 9_999_999_999_999_999_999
MAX_CONTENT_LENGTH == <<9, 9, 9, 9, 9, 9, 9, 9, 9, 9, 9, 9, 9, 9, 9, 9, 9, 9, 9>>

\* a <= b on numbers
usize_le(a, b) ==
  \/ Len(a) < Len(b)
  \/ /\ Len(a) = Len(b)
     /\ \/ a = b
        \/ \E i \in 1..Len(a) :
             /\ a[i] < b[i]
             /\ \A j \in 1..(i - 1) : a[j] = b[j]

RECURSIVE strip_leading_zeros(_)
strip_leading_zeros(ds) ==
  IF Len(ds) > 1 /\ ds[1] = 0 THEN strip_leading_zeros(Tail(ds)) ELSE ds

\* usize::to_string: one ASCII digit per decimal digit
usize_to_string(n) == [i \in 1..Len(n) |-> 48 + n[i]]

\* str::parse::<usize> (core::num, from_str_radix with radix 10): an empty
\* string is an error; one leading '+' is skipped (a '-' is not, for an
\* unsigned type); what remains must be one or more ASCII digits; the
\* checked multiply-and-add overflows exactly when the number exceeds
\* usize::MAX.
parse_usize(s) ==
  IF s = <<>>
    THEN Err("Empty")
  ELSE LET digits == IF s[1] = 43 THEN Tail(s) ELSE s
       IN
       IF digits = <<>> \/ \E i \in 1..Len(digits) : digits[i] \notin 48..57
         THEN Err("InvalidDigit")
       ELSE LET n == strip_leading_zeros([i \in 1..Len(digits) |-> digits[i] - 48])
            IN IF usize_le(n, USIZE_MAX) THEN Ok(n) ELSE Err("PosOverflow")

\* syntax::trim_whitespace_left: drops the leading linear whitespace
RECURSIVE trim_whitespace_left(_)
trim_whitespace_left(s) ==
  IF s # <<>> /\ s[1] \in {32, 9} THEN trim_whitespace_left(Tail(s)) ELSE s

\* impl Default for ContentLength (derived): ContentLength(0)
ContentLength_default == <<0>>

\* impl TryFrom<usize> for ContentLength
ContentLength_try_from(n) ==
  IF ~usize_le(n, MAX_CONTENT_LENGTH)
    THEN Err("InvalidTypedHeader")
    ELSE Ok(n)

\* to_header_raw that writes no value for a length of zero
to_header_raw_skip_zero(v) ==
  IF v = <<0>> THEN <<>> ELSE <<usize_to_string(v)>>

\* TypedHeader::to_header_raw for ContentLength
to_header_raw(v) == <<usize_to_string(v)>>

\* try_from_header_raw that reads the first value of a longer list
try_from_header_raw_first(header) ==
  IF Len(header) = 0
    THEN Ok(ContentLength_default)
  ELSE LET parsed == parse_usize(trim_whitespace_left(header[1]))
       IN IF parsed.tag = "Err"
            THEN Err("InvalidTypedHeader")
            ELSE ContentLength_try_from(parsed.v)

\* try_from_header_raw parsing the value as it was received
try_from_header_raw_no_trim(header) ==
  IF Len(header) = 0
    THEN Ok(ContentLength_default)
  ELSE IF Len(header) > 1
    THEN Err("InvalidTypedHeader")
  ELSE LET parsed == parse_usize(header[1])
       IN IF parsed.tag = "Err"
            THEN Err("InvalidTypedHeader")
            ELSE ContentLength_try_from(parsed.v)

\* TypedHeader::try_from_header_raw for ContentLength
try_from_header_raw(header) ==
  IF Len(header) = 0
    THEN Ok(ContentLength_default)
  ELSE IF Len(header) > 1
    THEN Err("InvalidTypedHeader")
  ELSE LET parsed == parse_usize(trim_whitespace_left(header[1]))
       IN IF parsed.tag = "Err"
            THEN Err("InvalidTypedHeader")
            ELSE ContentLength_try_from(parsed.v)

\* Inputs.  The numbers handed to ContentLength::try_from: small ones, the
\* limit, the first number above it and the largest usize.
UsizeInputs ==
  { <<0>>, <<7>>, <<1, 0>>, MAX_CONTENT_LENGTH,
    <<1>> \o [i \in 1..Len(MAX_CONTENT_LENGTH) |-> 0], USIZE_MAX }

\* The raw values of a received Content-Length header: plain numbers, a
\* sign, whitespace on either side, letters, the empty value, zero-padded
\* numbers of 19, 20 and 21 characters, and numbers around both limits.
\* The second line: "\t10", " \t10", " 10 ", "10\t" and " ".
RawValueInputs ==
  { <<43, 49, 48>>, <<49, 48>>, <<48>>, <<55>>, <<45, 49, 48>>, <<32, 49, 48>>, <<49, 48, 32>>, <<>>, <<97, 98, 99>>,
    <<9, 49, 48>>, <<32, 9, 49, 48>>, <<32, 49, 48, 32>>, <<49, 48, 9>>, <<32>>,
    <<49, 97>>, <<43>>, <<48, 48, 49, 48>>,
    Repeat(48, 17) \o <<49, 48>>, Repeat(48, 18) \o <<49, 48>>, Repeat(48, 19) \o <<49, 48>>,
    usize_to_string(MAX_CONTENT_LENGTH),
    <<43>> \o usize_to_string(MAX_CONTENT_LENGTH),
    <<49>> \o Repeat(48, 19),
    usize_to_string(USIZE_MAX),
    <<49, 56, 52, 52, 54, 55, 52, 52, 48, 55, 51, 55, 48, 57, 53, 53, 49, 54, 49, 54>> }

\* The most values a received Content-Length header carries
MaxRawValues == 2

RawHeaderInputs ==
  UNION { [1..n -> {v \in RawValueInputs : is_header_value(v)}] : n \in 0..MaxRawValues }

\* ContentLength::try_from(cl_n)
CLTryFromUsize ==
  /\ cl_n.tag = "Some"
  /\ cl_typed.tag = "None"
  /\ cl_typed' = Some(ContentLength_try_from(cl_n.v))
  /\ UNCHANGED <<cl_n, cl_raw, cl_decoded, hn_vars, rq_vars, rs_vars, cn_vars, en_vars>>

\* ContentLength::default()
CLDefault ==
  /\ cl_n.tag = "None"
  /\ cl_raw.tag = "None"
  /\ cl_typed.tag = "None"
  /\ cl_typed' = Some(Ok(ContentLength_default))
  /\ UNCHANGED <<cl_n, cl_raw, cl_decoded, hn_vars, rq_vars, rs_vars, cn_vars, en_vars>>

\* v.to_header_raw(), for a ContentLength v that was constructed
CLToHeaderRaw ==
  /\ cl_typed.tag = "Some"
  /\ cl_typed.v.tag = "Ok"
  /\ cl_raw.tag = "None"
  /\ cl_raw' = Some(to_header_raw(cl_typed.v.v))
  /\ UNCHANGED <<cl_n, cl_typed, cl_decoded, hn_vars, rq_vars, rs_vars, cn_vars, en_vars>>

\* ContentLength::try_from_header_raw(cl_raw)
CLTryFromHeaderRaw ==
  /\ cl_raw.tag = "Some"
  /\ cl_decoded.tag = "None"
  /\ cl_decoded' = Some(try_from_header_raw(cl_raw.v))
  /\ UNCHANGED <<cl_n, cl_typed, cl_raw, hn_vars, rq_vars, rs_vars, cn_vars, en_vars>>

\* ------------------------------------------------------------------------
\* Builder<TypedHeaderMap> and the conversions between the two builders
\*
\* A TypedHeaderMap holds, for each name, either a decoded typed value or
\* the raw values: an entry is [name, typed, values], with typed = None for
\* a raw entry and values = <<>> for a typed one.

\* From<HeaderMap> for TypedHeaderMap: every entry is kept as raw values
TypedHeaderMap_from(map) ==
  [i \in 1..Len(map) |->
     [name |-> map[i].name, typed |-> None, values |-> map[i].values]]

\* From<TypedHeaderMap> for HeaderMap: a typed entry is written out by
\* to_header_raw
HeaderMap_from(tmap) ==
  [i \in 1..Len(tmap) |->
     [name |-> tmap[i].name,
      values |-> IF tmap[i].typed.tag = "Some"
                   THEN to_header_raw(tmap[i].typed.v)
                   ELSE tmap[i].values]]

\* TypedHeaderMap::set, for a ContentLength: replaces the entry of that name
TypedHeaderMap_set(tmap, v) ==
  LET entry == [name |-> Standard("ContentLength"), typed |-> Some(v),
                values |-> <<>>]
  IN  IF \E i \in 1..Len(tmap) : HeaderName_eq(tmap[i].name, entry.name)
        THEN [i \in 1..Len(tmap) |->
                IF HeaderName_eq(tmap[i].name, entry.name) THEN entry ELSE tmap[i]]
        ELSE Append(tmap, entry)

\* into_typed starting from a builder without a stored error
request_into_typed_no_error(b) ==
  [error |-> None, headers |-> TypedHeaderMap_from(b.headers),
   method |-> b.method, uri |-> b.uri, version |-> b.version]

\* request::Builder<HeaderMap>::into_typed
request_into_typed(b) ==
  [error |-> b.error, headers |-> TypedHeaderMap_from(b.headers),
   method |-> b.method, uri |-> b.uri, version |-> b.version]

\* request::Builder<TypedHeaderMap>::into_untyped
request_into_untyped(b) ==
  [error |-> b.error, headers |-> HeaderMap_from(b.headers),
   method |-> b.method, uri |-> b.uri, version |-> b.version]

\* request::Builder<TypedHeaderMap>::header
request_header_typed(b, header) ==
  [b EXCEPT !.headers = TypedHeaderMap_set(@, header)]

\* response::Builder<HeaderMap>::into_typed
response_into_typed(b) ==
  [custom_reason_phrase |-> b.custom_reason_phrase, error |-> b.error,
   headers |-> TypedHeaderMap_from(b.headers),
   status_code |-> b.status_code, version |-> b.version]

\* response::Builder<TypedHeaderMap>::into_untyped
response_into_untyped(b) ==
  [custom_reason_phrase |-> b.custom_reason_phrase, error |-> b.error,
   headers |-> HeaderMap_from(b.headers),
   status_code |-> b.status_code, version |-> b.version]

\* response::Builder<TypedHeaderMap>::header
response_header_typed(b, header) ==
  [b EXCEPT !.headers = TypedHeaderMap_set(@, header)]

\* The typed header handed to header(): ContentLength::try_from(5).unwrap()
TypedHeaderInputs == {ContentLength_try_from(n).v : n \in {<<5>>}}

RequestIntoTyped ==
  /\ ~rq_typed
  /\ rq' = request_into_typed(rq)
  /\ rq_typed' = TRUE
  /\ rq_ret' = Self
  /\ rq_via' = "builder"
  /\ UNCHANGED <<rq_first, hn_vars, rs_vars, cl_vars, cn_vars, en_vars>>

RequestIntoUntyped ==
  /\ rq_typed
  /\ rq' = request_into_untyped(rq)
  /\ rq_typed' = FALSE
  /\ rq_ret' = Self
  /\ rq_via' = "builder"
  /\ UNCHANGED <<rq_first, hn_vars, rs_vars, cl_vars, cn_vars, en_vars>>

RequestHeaderTyped ==
  /\ rq_typed
  /\ \E header \in TypedHeaderInputs :
       /\ rq' = request_header_typed(rq, header)
       /\ RequestReturnsSelf

ResponseIntoTyped ==
  /\ ~rs_typed
  /\ rs' = response_into_typed(rs)
  /\ rs_typed' = TRUE
  /\ rs_ret' = Self
  /\ rs_via' = "builder"
  /\ UNCHANGED <<rs_first, hn_vars, rq_vars, cl_vars, cn_vars, en_vars>>

ResponseIntoUntyped ==
  /\ rs_typed
  /\ rs' = response_into_untyped(rs)
  /\ rs_typed' = FALSE
  /\ rs_ret' = Self
  /\ rs_via' = "builder"
  /\ UNCHANGED <<rs_first, hn_vars, rq_vars, cl_vars, cn_vars, en_vars>>

ResponseHeaderTyped ==
  /\ rs_typed
  /\ \E header \in TypedHeaderInputs :
       /\ rs' = response_header_typed(rs, header)
       /\ ResponseReturnsSelf

\* ------------------------------------------------------------------------
\* Request and Response values: the accessors that return &mut to a field.
\* The caller assigns through the reference; x is the value assigned.

\* method_mut handing out the whole request
Request_method_mut_whole(msg, x) ==
  [msg EXCEPT !.method = x, !.headers = HeaderMap_default]

\* Request::body_mut
Request_body_mut(msg, x) == [msg EXCEPT !.body = x]
\* Request::headers_mut
Request_headers_mut(msg, x) == [msg EXCEPT !.headers = x]
\* Request::method_mut
Request_method_mut(msg, x) == [msg EXCEPT !.method = x]
\* Request::uri_mut
Request_uri_mut(msg, x) == [msg EXCEPT !.uri = x]
\* Request::version_mut
Request_version_mut(msg, x) == [msg EXCEPT !.version = x]

\* Response::body_mut
Response_body_mut(msg, x) == [msg EXCEPT !.body = x]
\* Response::headers_mut
Response_headers_mut(msg, x) == [msg EXCEPT !.headers = x]
\* Response::reason_mut
Response_reason_mut(msg, x) == [msg EXCEPT !.reason_phrase = x]
\* Response::status_code_mut
Response_status_code_mut(msg, x) == [msg EXCEPT !.status_code = x]
\* Response::version_mut
Response_version_mut(msg, x) == [msg EXCEPT !.version = x]

\* The values assigned through the references
VersionValues == {Version_try_from(text).v : text \in {"RTSP/2.0", "RTSP/1.0"}}
StatusCodeValues == {StatusCode_try_from(n).v : n \in {200, 299}}
HeaderMapValues ==
  {HeaderMap_default, HeaderMap_append(HeaderMap_default, Standard("CSeq"), <<53>>)}

\* A write through a reference leaves the builder and its history alone
RequestMessageWritten ==
  /\ rq_ret.tag = "Ok"
  /\ UNCHANGED <<rq, rq_first, rq_typed, hn_vars, rs_vars, cl_vars, cn_vars, en_vars>>

RequestBodyMut ==
  \E x \in Bodies :
    /\ RequestMessageWritten
    /\ rq_ret' = Ok(Request_body_mut(rq_ret.v, x))
    /\ rq_via' = "body_mut"

RequestHeadersMut ==
  \E x \in HeaderMapValues :
    /\ RequestMessageWritten
    /\ rq_ret' = Ok(Request_headers_mut(rq_ret.v, x))
    /\ rq_via' = "headers_mut"

RequestMethodMut ==
  \E x \in ValidMethods :
    /\ RequestMessageWritten
    /\ rq_ret' = Ok(Request_method_mut(rq_ret.v, x))
    /\ rq_via' = "method_mut"

RequestUriMut ==
  \E x \in ValidRequestURIs :
    /\ RequestMessageWritten
    /\ rq_ret' = Ok(Request_uri_mut(rq_ret.v, x))
    /\ rq_via' = "uri_mut"

RequestVersionMut ==
  \E x \in VersionValues :
    /\ RequestMessageWritten
    /\ rq_ret' = Ok(Request_version_mut(rq_ret.v, x))
    /\ rq_via' = "version_mut"

ResponseMessageWritten ==
  /\ rs_ret.tag = "Ok"
  /\ UNCHANGED <<rs, rs_first, rs_typed, hn_vars, rq_vars, cl_vars, cn_vars, en_vars>>

ResponseBodyMut ==
  \E x \in Bodies :
    /\ ResponseMessageWritten
    /\ rs_ret' = Ok(Response_body_mut(rs_ret.v, x))
    /\ rs_via' = "body_mut"

ResponseHeadersMut ==
  \E x \in HeaderMapValues :
    /\ ResponseMessageWritten
    /\ rs_ret' = Ok(Response_headers_mut(rs_ret.v, x))
    /\ rs_via' = "headers_mut"

ResponseReasonMut ==
  \E x \in ValidReasonPhrases :
    /\ ResponseMessageWritten
    /\ rs_ret' = Ok(Response_reason_mut(rs_ret.v, x))
    /\ rs_via' = "reason_mut"

ResponseStatusCodeMut ==
  \E x \in StatusCodeValues :
    /\ ResponseMessageWritten
    /\ rs_ret' = Ok(Response_status_code_mut(rs_ret.v, x))
    /\ rs_via' = "status_code_mut"

ResponseVersionMut ==
  \E x \in VersionValues :
    /\ ResponseMessageWritten
    /\ rs_ret' = Ok(Response_version_mut(rs_ret.v, x))
    /\ rs_via' = "version_mut"

\* ------------------------------------------------------------------------
\* The connection engine: outbound requests (Client::send_request hands the
\* request to ConnectionHandle::send_request).  The steps of the reader and
\* writer tasks are atomic: the tasks are cooperative and single-threaded,
\* and no state is shared across a suspension point.

\* The send_request calls a run makes
MaxRequests == 2
\* The capacity of the writer channel
QueueCapacity == 1

Requests == 1..MaxRequests
\* The CSeq values the peer puts on its responses: those the writer can
\* assign and one it never assigns
PeerCSeqs == 1..(MaxRequests + 1)

\* A future before send_request is called
NoFuture == [state |-> "none", deadline |-> FALSE, cseq |-> 0, results |-> <<>>]

\* What a future resolves to: Ok(response), the response standing for its
\* CSeq header, or Err(OperationError)
Response(c) == [kind |-> "Ok", cseq |-> c, error |-> ""]
Failure(x) == [kind |-> "Err", cseq |-> 0, error |-> x]

\* Completing request r together with every other awaited request
complete_everyone(fut, r, x) ==
  [o \in DOMAIN fut |->
     IF fut[o].state = "waiting"
       THEN [fut[o] EXCEPT !.state = "resolved", !.results = Append(@, x)]
       ELSE fut[o]]

\* The one-shot of request r completes with outcome x; a future that was
\* dropped receives nothing
complete(fut, r, x) ==
  IF fut[r].state = "waiting"
    THEN [fut EXCEPT ![r].state = "resolved", ![r].results = Append(@, x)]
    ELSE fut

\* Looking up the oldest pending entry, whatever CSeq the response carries
lookup_oldest(pending, c) ==
  {e \in pending : \A o \in pending : e.cseq <= o.cseq}

\* The pending entry a response with CSeq c matches
lookup(pending, c) == {e \in pending : e.cseq = c}

\* A termination that leaves the pending entries as they are
complete_all_none(fut, pending, x) == fut

\* Completing one pending entry only
complete_all_one(fut, pending, x) ==
  IF pending = {} THEN fut
  ELSE LET e == CHOOSE e \in pending : TRUE IN complete(fut, e.req, x)

RECURSIVE complete_all(_, _, _)
\* Connection termination: every pending entry completes with x
complete_all(fut, pending, x) ==
  IF pending = {}
    THEN fut
    ELSE LET e == CHOOSE e \in pending : TRUE
         IN  complete_all(complete(fut, e.req, x), pending \ {e}, x)

\* A send that finds every connection open, whatever has happened
is_closed_never(closed, writer) == FALSE

\* Whether send_request finds the connection terminated: an error was
\* signalled, or the writer has gone and its channel is closed
is_closed(closed, writer) == closed.tag = "Some" \/ writer = "exited"

\* A request goes onto the wire in two writes, its head (start line and
\* headers, the CSeq among them) and the rest: the writer suspends on the
\* transport between them
Fragment(r, c, part) == [req |-> r, cseq |-> c, part |-> part]

\* A writer that never regards itself as inside a request
mid_write_never(wire) == FALSE

\* Whether the writer is in the middle of a request
mid_write(wire) == wire # <<>> /\ wire[Len(wire)].part = "head"

\* handle.send_request(req): the request is enqueued on the writer channel
\* and a future returned; with a deadline or without.  On a connection
\* that has terminated the future resolves to ConnectionClosed.  The call
\* suspends while the channel is full.
Sends(r, deadline) ==
  /\ cn_handle
  /\ cn_fut[r].state = "none"
  /\ IF is_closed(cn_closed, cn_writer)
       THEN /\ cn_fut' = [cn_fut EXCEPT ![r].state = "resolved",
                                        ![r].results = <<Failure("ConnectionClosed")>>]
            /\ UNCHANGED <<cn_queue, cn_sent>>
       ELSE /\ Len(cn_queue) < QueueCapacity
            /\ cn_fut' = [cn_fut EXCEPT ![r].state = "waiting",
                                        ![r].deadline = deadline]
            /\ cn_queue' = Append(cn_queue, r)
            /\ cn_sent' = Append(cn_sent, r)
  /\ UNCHANGED <<cn_next_cseq, cn_pending, cn_wire, cn_handle, cn_reader,
                 cn_writer, cn_closed, hn_vars, rq_vars, rs_vars, cl_vars, en_vars>>

SendRequest == \E r \in Requests, deadline \in BOOLEAN : Sends(r, deadline)

\* The writer takes the next item in enqueue order, assigns the next CSeq,
\* installs the pending entry and starts writing the request
WriterWrite ==
  /\ cn_writer = "running"
  /\ cn_closed.tag = "None"
  /\ ~mid_write(cn_wire)
  /\ cn_queue # <<>>
  /\ LET r == Head(cn_queue)
     IN  /\ cn_fut' = [cn_fut EXCEPT ![r].cseq = cn_next_cseq]
         /\ cn_pending' = cn_pending \cup
              {[cseq |-> cn_next_cseq, req |-> r,
                deadline |-> cn_fut[r].deadline,
                abandoned |-> cn_fut[r].state = "dropped"]}
         /\ cn_wire' = Append(cn_wire, Fragment(r, cn_next_cseq, "head"))
  /\ cn_queue' = Tail(cn_queue)
  /\ cn_next_cseq' = cn_next_cseq + 1
  /\ UNCHANGED <<cn_sent, cn_handle, cn_reader, cn_writer, cn_closed, hn_vars, rq_vars, rs_vars, cl_vars, en_vars>>

\* The writer writes the rest of the request it started
WriterFinishes ==
  /\ cn_writer = "running"
  /\ cn_closed.tag = "None"
  /\ mid_write(cn_wire)
  /\ LET head == cn_wire[Len(cn_wire)]
     IN  cn_wire' = Append(cn_wire, Fragment(head.req, head.cseq, "rest"))
  /\ UNCHANGED <<cn_fut, cn_queue, cn_sent, cn_next_cseq, cn_pending, cn_handle,
                 cn_reader, cn_writer, cn_closed, hn_vars, rq_vars, rs_vars, cl_vars, en_vars>>

\* The reader decodes a response carrying CSeq c: a matching entry is
\* removed and the response delivered through its one-shot (discarded if
\* the slot is abandoned); without a matching entry the response is
\* unsolicited and the connection is terminated
ReaderReads(c) ==
  /\ cn_reader = "running"
  /\ IF lookup(cn_pending, c) # {}
       THEN LET e == CHOOSE e \in lookup(cn_pending, c) : TRUE
            IN  /\ cn_fut' = IF e.abandoned THEN cn_fut
                             ELSE complete(cn_fut, e.req, Response(c))
                /\ cn_pending' = cn_pending \ {e}
                /\ UNCHANGED <<cn_reader, cn_closed>>
       ELSE /\ cn_fut' = complete_all(cn_fut, cn_pending, Failure("UnsolicitedResponse"))
            /\ cn_pending' = {}
            /\ cn_reader' = "exited"
            /\ cn_closed' = IF cn_closed.tag = "None"
                              THEN Some("UnsolicitedResponse") ELSE cn_closed
  /\ UNCHANGED <<cn_queue, cn_sent, cn_next_cseq, cn_wire, cn_handle, cn_writer, hn_vars, rq_vars, rs_vars, cl_vars, en_vars>>

ReaderResponse == \E c \in PeerCSeqs : ReaderReads(c)

\* The reader fails: a decode error, a transport read error, or the end of
\* the stream.  Every pending entry completes with the error, the writer
\* is signalled and the reader exits.
ReaderFailsWith(x) ==
  /\ cn_reader = "running"
  /\ cn_fut' = complete_all(cn_fut, cn_pending, Failure(x))
  /\ cn_pending' = {}
  /\ cn_reader' = "exited"
  /\ cn_closed' = IF cn_closed.tag = "None" THEN Some(x) ELSE cn_closed
  /\ UNCHANGED <<cn_queue, cn_sent, cn_next_cseq, cn_wire, cn_handle, cn_writer, hn_vars, rq_vars, rs_vars, cl_vars, en_vars>>

ReaderFails ==
  \E x \in {"BadStartLine", "TransportError", "ConnectionClosed"} : ReaderFailsWith(x)

\* A transport write error: the writer signals the reader
WriterFails ==
  /\ cn_writer = "running"
  /\ cn_closed.tag = "None"
  /\ cn_closed' = Some("TransportError")
  /\ UNCHANGED <<cn_fut, cn_queue, cn_sent, cn_next_cseq, cn_pending, cn_wire,
                 cn_handle, cn_reader, cn_writer, hn_vars, rq_vars, rs_vars, cl_vars, en_vars>>

\* The reader, signalled by the writer, completes every pending entry with
\* the error and exits
ReaderSignalled ==
  /\ cn_reader = "running"
  /\ cn_closed.tag = "Some"
  /\ cn_fut' = complete_all(cn_fut, cn_pending, Failure(cn_closed.v))
  /\ cn_pending' = {}
  /\ cn_reader' = "exited"
  /\ UNCHANGED <<cn_queue, cn_sent, cn_next_cseq, cn_wire, cn_handle, cn_writer,
                 cn_closed, hn_vars, rq_vars, rs_vars, cl_vars, en_vars>>

\* The writer of a terminated connection drains its queue: each item is
\* rejected with ConnectionClosed
WriterRejects ==
  /\ cn_writer = "running"
  /\ cn_closed.tag = "Some"
  /\ cn_queue # <<>>
  /\ cn_fut' = complete(cn_fut, Head(cn_queue), Failure("ConnectionClosed"))
  /\ cn_queue' = Tail(cn_queue)
  /\ UNCHANGED <<cn_sent, cn_next_cseq, cn_pending, cn_wire, cn_handle, cn_reader,
                 cn_writer, cn_closed, hn_vars, rq_vars, rs_vars, cl_vars, en_vars>>

\* The writer exits: its queue is empty and the connection has terminated,
\* or the last handle is gone, every request is written and it closes the
\* write half
WriterExits ==
  /\ cn_writer = "running"
  /\ cn_queue = <<>>
  /\ cn_closed.tag = "Some" \/ (~cn_handle /\ ~mid_write(cn_wire))
  /\ cn_writer' = "exited"
  /\ UNCHANGED <<cn_fut, cn_queue, cn_sent, cn_next_cseq, cn_pending, cn_wire,
                 cn_handle, cn_reader, cn_closed, hn_vars, rq_vars, rs_vars, cl_vars, en_vars>>

\* The deadline of pending entry e expires: the entry is removed and its
\* one-shot completes with Timeout
Expires(e) ==
  /\ cn_reader = "running"
  /\ e \in cn_pending
  /\ e.deadline
  /\ ~e.abandoned
  /\ cn_fut' = complete(cn_fut, e.req, Failure("Timeout"))
  /\ cn_pending' = cn_pending \ {e}
  /\ UNCHANGED <<cn_queue, cn_sent, cn_next_cseq, cn_wire, cn_handle, cn_reader,
                 cn_writer, cn_closed, hn_vars, rq_vars, rs_vars, cl_vars, en_vars>>

Timeout == \E e \in cn_pending : Expires(e)

\* Forgetting the entries of request r altogether
abandon_remove(pending, r) == {e \in pending : e.req # r}

\* The slot of request r is marked abandoned; its entry stays in the table
abandon(pending, r) ==
  {IF e.req = r THEN [e EXCEPT !.abandoned = TRUE] ELSE e : e \in pending}

\* The caller drops the future of request r: its slot is marked abandoned
Drops(r) ==
  /\ cn_fut[r].state = "waiting"
  /\ cn_fut' = [cn_fut EXCEPT ![r].state = "dropped"]
  /\ cn_pending' = abandon(cn_pending, r)
  /\ UNCHANGED <<cn_queue, cn_sent, cn_next_cseq, cn_wire, cn_handle, cn_reader,
                 cn_writer, cn_closed, hn_vars, rq_vars, rs_vars, cl_vars, en_vars>>

DropFuture == \E r \in Requests : Drops(r)

\* The caller drops the last ConnectionHandle
DropHandle ==
  /\ cn_handle
  /\ cn_handle' = FALSE
  /\ UNCHANGED <<cn_fut, cn_queue, cn_sent, cn_next_cseq, cn_pending, cn_wire,
                 cn_reader, cn_writer, cn_closed, hn_vars, rq_vars, rs_vars, cl_vars, en_vars>>

\* ------------------------------------------------------------------------
\* The encoder: a Request or Response is written to an output buffer as its
\* start line, one line per header value in map order, a blank line and the
\* body; Content-Length is forcibly set to the length of the body.

MaxEncodeValues == 3

CRLF == <<13, 10>>

RECURSIVE usize_from(_)
\* body.len(): the length of the body as a number
usize_from(n) == IF n < 10 THEN <<n>> ELSE Append(usize_from(n \div 10), n % 10)

\* A set that leaves a value already present in place
HeaderMap_insert_if_absent(map, n, v) ==
  IF \E i \in 1..Len(map) : HeaderName_eq(map[i].name, n)
    THEN map
    ELSE Append(map, [name |-> n, values |-> <<v>>])

\* HeaderMap::insert(n, v): v replaces every value held for n
HeaderMap_insert(map, n, v) ==
  IF \E i \in 1..Len(map) : HeaderName_eq(map[i].name, n)
    THEN [i \in 1..Len(map) |->
            IF HeaderName_eq(map[i].name, n)
              THEN [map[i] EXCEPT !.values = <<v>>]
              ELSE map[i]]
    ELSE Append(map, [name |-> n, values |-> <<v>>])

\* One header line: CanonicalName ":" SP value CRLF
header_line(n, v) == canonical_name(n) \o <<58, 32>> \o v \o CRLF

RECURSIVE values_lines(_, _)
\* The lines of one name, its values in append order
values_lines(n, values) ==
  IF values = <<>> THEN <<>>
  ELSE header_line(n, Head(values)) \o values_lines(n, Tail(values))

RECURSIVE header_lines(_)
\* The lines of a header map, in map order
header_lines(map) ==
  IF map = <<>> THEN <<>>
  ELSE values_lines(Head(map).name, Head(map).values) \o header_lines(Tail(map))

\* encode(message): the start line (its three fields separated by SP), the
\* header lines with Content-Length set to the length of the body, the
\* blank line, the body verbatim
encode(msg) ==
  LET headers == HeaderMap_insert(msg.headers, Standard("ContentLength"),
                                  usize_to_string(usize_from(Len(msg.body))))
  IN  msg.start[1] \o <<32>> \o msg.start[2] \o <<32>> \o msg.start[3] \o CRLF
        \o header_lines(headers) \o CRLF \o msg.body

\* The start-line fields in wire order: "SETUP", "*", "RTSP/2.0" of a
\* request and "RTSP/2.0", "200", "OK" of a response
EncodeStarts ==
  { << <<83, 69, 84, 85, 80>>, <<42>>, <<82, 84, 83, 80, 47, 50, 46, 48>> >>,
    << <<82, 84, 83, 80, 47, 50, 46, 48>>, <<50, 48, 48>>, <<79, 75>> >> }

\* Bodies of 0, 5 and 21 bytes: "", "hello", and a body that holds a line
\* reading "Content-Length: 7" between two CRLF
EncodeBodies ==
  { <<>>, <<104, 101, 108, 108, 111>>,
    <<13, 10, 67, 111, 110, 116, 101, 110, 116, 45, 76, 101, 110, 103, 116, 104,
      58, 32, 55, 13, 10>> }

EncodeNames == {Standard("ContentLength"), Standard("CSeq")}

\* "999", "5" and "21"
EncodeValues == { <<57, 57, 57>>, <<53>>, <<50, 49>> }

\* A header is appended to the message before it is encoded
EncoderHeader ==
  /\ en_out = None
  /\ HeaderMap_len(en_msg.headers) < MaxEncodeValues
  /\ \E n \in EncodeNames, v \in EncodeValues :
       en_msg' = [en_msg EXCEPT !.headers = HeaderMap_append(@, n, v)]
  /\ UNCHANGED <<en_out, hn_vars, rq_vars, rs_vars, cl_vars, cn_vars>>

\* The message is encoded
Encode ==
  /\ en_out = None
  /\ en_out' = Some(encode(en_msg))
  /\ UNCHANGED <<en_msg, hn_vars, rq_vars, rs_vars, cl_vars, cn_vars>>

\* ------------------------------------------------------------------------
\* Specifications

\* Nothing converted or compared yet
HeaderNamesIdle ==
  /\ result = None
  /\ result_upper = None
  /\ cmp = NoCmp

\* Request::builder() and Response::builder(): fresh builders
ContentLengthIdle ==
  /\ cl_n = None
  /\ cl_typed = None
  /\ cl_raw = None
  /\ cl_decoded = None

\* Nothing handed to the encoder
EncoderIdle ==
  /\ en_msg = [start |-> <<>>, headers |-> HeaderMap_default, body |-> <<>>]
  /\ en_out = None

\* Connection::new: nothing sent, CSeq starts at 1, both tasks spawned
ConnectionNew ==
  /\ cn_fut = [r \in Requests |-> NoFuture]
  /\ cn_queue = <<>>
  /\ cn_next_cseq = 1
  /\ cn_pending = {}
  /\ cn_handle = TRUE
  /\ cn_reader = "running"
  /\ cn_writer = "running"
  /\ cn_closed = None
  /\ cn_wire = <<>>
  /\ cn_sent = <<>>

BuildersNew ==
  /\ rq = request_default
  /\ rq_ret = Self
  /\ rq_first = None
  /\ rq_typed = FALSE
  /\ rq_via = "builder"
  /\ rs = response_default
  /\ rs_ret = Self
  /\ rs_first = None
  /\ rs_typed = FALSE
  /\ rs_via = "builder"

\* Header names: conversions and comparisons of one input
Init ==
  /\ value \in Inputs
  /\ HeaderNamesIdle
  /\ BuildersNew
  /\ ContentLengthIdle
  /\ ConnectionNew
  /\ EncoderIdle

Next ==
  \/ TryFrom
  \/ TryFromUpper
  \/ EqHeaderName
  \/ HashBoth
  \/ EqStr
  \/ EqRefStr
  \/ EqString

Spec == Init /\ [][Next]_vars

\* The request builder: any sequence of calls on one builder
InitRequest ==
  /\ value = <<>>
  /\ HeaderNamesIdle
  /\ BuildersNew
  /\ ContentLengthIdle
  /\ ConnectionNew
  /\ EncoderIdle

NextRequest ==
  \/ RequestMethod
  \/ RequestUri
  \/ RequestVersion
  \/ RequestHeader
  \/ RequestBuild

SpecRequest == InitRequest /\ [][NextRequest]_vars

\* The response builder: any sequence of calls on one builder
InitResponse ==
  /\ value = <<>>
  /\ HeaderNamesIdle
  /\ BuildersNew
  /\ ContentLengthIdle
  /\ ConnectionNew
  /\ EncoderIdle

NextResponse ==
  \/ ResponseReason
  \/ ResponseStatusCode
  \/ ResponseVersion
  \/ ResponseHeader
  \/ ResponseBuild

SpecResponse == InitResponse /\ [][NextResponse]_vars

\* Content-Length: a number is converted, encoded and decoded again, or a
\* received raw header is decoded
InitContentLength ==
  /\ value = <<>>
  /\ HeaderNamesIdle
  /\ BuildersNew
  /\ ConnectionNew
  /\ EncoderIdle
  /\ cl_typed = None
  /\ cl_decoded = None
  /\ \/ cl_n \in {Some(n) : n \in UsizeInputs} /\ cl_raw = None
     \/ cl_n = None /\ cl_raw = None
     \/ cl_n = None /\ cl_raw \in {Some(h) : h \in RawHeaderInputs}

NextContentLength ==
  \/ CLTryFromUsize
  \/ CLDefault
  \/ CLToHeaderRaw
  \/ CLTryFromHeaderRaw

SpecContentLength == InitContentLength /\ [][NextContentLength]_vars

\* Both builders: a program run uses one builder, a request or a response
\* one, through any sequence of calls, conversions included
RequestUnused ==
  rq = request_default /\ rq_ret = Self /\ rq_first = None /\ ~rq_typed /\ rq_via = "builder"
ResponseUnused ==
  rs = response_default /\ rs_ret = Self /\ rs_first = None /\ ~rs_typed /\ rs_via = "builder"

NextRequestTyped ==
  \/ NextRequest
  \/ RequestIntoTyped
  \/ RequestIntoUntyped
  \/ RequestHeaderTyped

NextResponseTyped ==
  \/ NextResponse
  \/ ResponseIntoTyped
  \/ ResponseIntoUntyped
  \/ ResponseHeaderTyped

NextBuilders ==
  \/ ResponseUnused /\ NextRequestTyped
  \/ RequestUnused /\ NextResponseTyped

SpecBuilders == InitRequest /\ [][NextBuilders]_vars

\* Built messages: one builder is used, and a Request or Response that
\* build returned is written to through its accessors until the next call
\* on the builder
NextRequestMessage ==
  \/ NextRequest
  \/ RequestBodyMut
  \/ RequestHeadersMut
  \/ RequestMethodMut
  \/ RequestUriMut
  \/ RequestVersionMut

NextResponseMessage ==
  \/ NextResponse
  \/ ResponseBodyMut
  \/ ResponseHeadersMut
  \/ ResponseReasonMut
  \/ ResponseStatusCodeMut
  \/ ResponseVersionMut

NextMessages ==
  \/ ResponseUnused /\ NextRequestMessage
  \/ RequestUnused /\ NextResponseMessage

SpecMessages == InitRequest /\ [][NextMessages]_vars

\* The connection engine: callers, the two tasks, the peer and the clock
InitConnection ==
  /\ value = <<>>
  /\ HeaderNamesIdle
  /\ BuildersNew
  /\ ContentLengthIdle
  /\ ConnectionNew
  /\ EncoderIdle

NextConnection ==
  \/ SendRequest
  \/ WriterWrite
  \/ WriterFinishes
  \/ ReaderResponse
  \/ ReaderFails
  \/ WriterFails
  \/ ReaderSignalled
  \/ WriterRejects
  \/ WriterExits
  \/ Timeout
  \/ DropFuture
  \/ DropHandle

SpecConnection == InitConnection /\ [][NextConnection]_vars

\* The encoder: a message with any headers and body is encoded once
InitEncode ==
  /\ value = <<>>
  /\ HeaderNamesIdle
  /\ BuildersNew
  /\ ContentLengthIdle
  /\ ConnectionNew
  /\ en_msg \in [start : EncodeStarts, headers : {HeaderMap_default}, body : EncodeBodies]
  /\ en_out = None

NextEncode ==
  \/ EncoderHeader
  \/ Encode

SpecEncode == InitEncode /\ [][NextEncode]_vars

\* The executor runs a task that can take a step, and a deadline that has
\* been set expires; what the peer sends, and when, is up to the peer
FairSpecConnection ==
  /\ SpecConnection
  /\ WF_vars(WriterWrite)
  /\ WF_vars(WriterFinishes)
  /\ WF_vars(WriterRejects)
  /\ WF_vars(WriterExits)
  /\ WF_vars(ReaderSignalled)
  /\ WF_vars(Timeout)

\* ------------------------------------------------------------------------
\* Properties of header names

\* C1: for every valid token s, HeaderName::try_from(s) and
\* HeaderName::try_from(s.to_ascii_uppercase()) compare equal under ==,
\* for extension names as for standard names.
C1_UppercaseEqual ==
  (cmp.op = "HeaderName" /\ is_token(value)) => (cmp.res /\ cmp.rev)

\* C3: a HeaderName h and a string t are equal under == (either way round)
\* exactly when h.as_str() is the ASCII-lowercase of t, whichever string
\* type t has: str, &str or String.
C3_StringEquality ==
  cmp.op \in {"str", "&str", "String"} =>
    /\ cmp.res = (as_str(result.v) = to_ascii_lowercase(cmp.text))
    /\ cmp.rev = (as_str(result.v) = to_ascii_lowercase(cmp.text))

\* C9: there are 58 standard header names; every spelling of a standard
\* name, in any mix of cases, converts to the corresponding standard
\* variant, and try_from never returns an Extension whose lowercase form is
\* the name of a standard header.
C9_StandardDispatch ==
  /\ Cardinality(StandardHeaders) = 58
  /\ Cardinality(StandardNames) = 58
  /\ result.tag # "None" =>
       /\ \A h \in StandardHeaders :
            to_ascii_lowercase(value) = h.name =>
              (result.tag = "Ok" /\ result.v = Standard(h.variant))
       /\ (result.tag = "Ok" /\ result.v.variant = "Extension") =>
            as_str(result.v) \notin StandardNames

\* A mixed-case spelling of Content-Length has been converted to the
\* ContentLength variant.
C9_Witness ==
  /\ result.tag = "Ok"
  /\ result.v = Standard("ContentLength")
  /\ value # to_ascii_lowercase(value)

HasNonTokenByte(s) == \E i \in 1..Len(s) : s[i] \notin TokenBytes

C11_UppercaseHashEqual ==
  (cmp.op = "hash" /\ is_token(value)) =>
    /\ cmp.res
    /\ cmp.rev
    /\ (result.tag = "Ok" /\ result.v.variant = "Extension") =>
         HeaderName_hash(result.v) = <<"Extension", to_ascii_lowercase(value)>>

\* The hashes of an extension name and of its uppercase spelling, which
\* differs from it, have been compared.
C11_Witness ==
  /\ cmp.op = "hash"
  /\ result.tag = "Ok"
  /\ result.v.variant = "Extension"
  /\ result_upper.tag = "Ok"
  /\ result.v.ext[1] # result_upper.v.ext[1]

\* C12: every HeaderName, standard or returned by try_from, has as_str()
\* equal to the ASCII-lowercase of canonical_name(); for an Extension made
\* from input s, canonical_name() is s byte for byte, s is a token and
\* as_str() is s in lowercase.
C12_NameInvariant ==
  /\ \A h \in StandardHeaders :
       as_str(Standard(h.variant)) =
         to_ascii_lowercase(canonical_name(Standard(h.variant)))
  /\ result.tag = "Ok" =>
       /\ as_str(result.v) = to_ascii_lowercase(canonical_name(result.v))
       /\ result.v.variant = "Extension" =>
            /\ canonical_name(result.v) = value
            /\ is_token(value)
            /\ as_str(result.v) = to_ascii_lowercase(value)

\* An extension name with an uppercase letter has been made.
C12_Witness ==
  /\ result.tag = "Ok"
  /\ result.v.variant = "Extension"
  /\ value # to_ascii_lowercase(value)

\* ------------------------------------------------------------------------
\* Properties of the builders

\* The call just made was build
RequestBuilt == rq_ret.tag \in {"Ok", "Err"}
ResponseBuilt == rs_ret.tag \in {"Ok", "Err"}

\* C2: build returns the first error stored in the builder: when several
\* mutators were called with invalid arguments, the error build returns is
\* the one recorded by the earliest failing mutator, not a later one.
C2_FirstErrorReturned ==
  (rq_ret.tag = "Err" /\ rq_first.tag = "Some") => rq_ret.v = rq_first.v

\* C4: after reason(Some(r)) with a valid reason phrase r on a response
\* builder holding no error, build returns a response whose reason() is r,
\* for a standard status code as for an extension code.
C4_CustomReasonUsed ==
  [][(ResponseBuilt' /\ rs.error.tag = "None"
        /\ rs.custom_reason_phrase.tag = "Some") =>
       (rs_ret'.tag = "Ok"
          /\ rs_ret'.v.reason_phrase = rs.custom_reason_phrase.v)]_vars

\* C5: a response build with no stored error fails with MissingReasonPhrase
\* when the status code is an extension code and no custom reason phrase is
\* set, succeeds with the custom reason when the code is an extension code
\* and one is set, and always succeeds for a standard code, the reason being
\* the canonical phrase of the code when no custom reason was supplied.
C5_ResponseBuild ==
  [][(ResponseBuilt' /\ rs.error.tag = "None") =>
       /\ (rs.status_code.kind = "Extension"
             /\ rs.custom_reason_phrase.tag = "None") =>
            (rs_ret'.tag = "Err" /\ rs_ret'.v = "MissingReasonPhrase")
       /\ (rs.status_code.kind = "Extension"
             /\ rs.custom_reason_phrase.tag = "Some") =>
            (rs_ret'.tag = "Ok"
               /\ rs_ret'.v.reason_phrase = rs.custom_reason_phrase.v
               /\ rs_ret'.v.status_code = rs.status_code)
       /\ rs.status_code.kind = "Standard" =>
            /\ rs_ret'.tag = "Ok"
            /\ rs_ret'.v.status_code = rs.status_code
            /\ rs.custom_reason_phrase.tag = "None" =>
                 rs_ret'.v.reason_phrase = CanonicalReasons[rs.status_code.code]]_vars

\* A build with an extension status code and no reason phrase has failed.
C5_Witness ==
  /\ rs_ret.tag = "Err"
  /\ rs_ret.v = "MissingReasonPhrase"
  /\ rs.status_code.kind = "Extension"
  /\ rs.error.tag = "None"

\* C6: a request build with no stored error returns MissingMethod when the
\* method is unset (whether or not the uri is set), MissingRequestURI when
\* the method is set and the uri is unset, and Ok only when both are set; a
\* stored error is returned in preference to either.
C6_RequestBuild ==
  [][RequestBuilt' =>
       IF rq.error.tag = "Some"
         THEN rq_ret'.tag = "Err" /\ rq_ret'.v = rq.error.v
       ELSE IF rq.method.tag = "None"
         THEN rq_ret'.tag = "Err" /\ rq_ret'.v = "MissingMethod"
       ELSE IF rq.uri.tag = "None"
         THEN rq_ret'.tag = "Err" /\ rq_ret'.v = "MissingRequestURI"
       ELSE /\ rq_ret'.tag = "Ok"
            /\ rq_ret'.v.method = rq.method.v
            /\ rq_ret'.v.uri = rq.uri.v]_vars

\* A build with the method set and the uri unset has failed.
C6_Witness ==
  /\ rq_ret.tag = "Err"
  /\ rq_ret.v = "MissingRequestURI"
  /\ rq.error.tag = "None"

\* C7: after a successful response build all fields of the builder are
\* reset (status code 200, no custom reason phrase, empty headers), so that
\* an immediately following build returns what a fresh builder returns.
C7_ResponseReset ==
  rs_ret.tag = "Ok" =>
    /\ rs = response_default
    /\ \A body \in Bodies :
         response_build(rs, body).ret = response_build(response_default, body).ret

\* C8: after a successful request build all fields of the builder are
\* reset (method and uri unset, headers empty, no error, version RTSP/2.0),
\* so that an immediately following build fails with MissingMethod as on a
\* fresh builder.
C8_RequestReset ==
  rq_ret.tag = "Ok" =>
    /\ rq = request_default
    /\ rq.method = None /\ rq.uri = None /\ rq.error = None
    /\ rq.headers = <<>> /\ rq.version = "RTSP20"
    /\ \A body \in Bodies :
         /\ request_build(rq, body).ret.tag = "Err"
         /\ request_build(rq, body).ret.v = "MissingMethod"

\* A request carrying headers has just been built.
C8_Witness ==
  /\ rq_ret.tag = "Ok"
  /\ rq_ret.v.headers # <<>>

\* ------------------------------------------------------------------------
\* Properties of ContentLength

\* A received raw header has been decoded
RawDecoded == cl_typed.tag = "None" /\ cl_raw.tag = "Some" /\ cl_decoded.tag = "Some"

\* C13: try_from_header_raw on a single raw value returns Ok(n) only when
\* the value is between 1 and 19 ASCII digits denoting n, n at most
\* MAX_CONTENT_LENGTH; every other text (a sign, letters, the empty value,
\* more than 19 digits) yields InvalidTypedHeader.
C13_DigitsOnly ==
  (RawDecoded /\ Len(cl_raw.v) = 1) =>
    LET v == cl_raw.v[1]
        digits == /\ Len(v) \in 1..Len(MAX_CONTENT_LENGTH)
                  /\ \A i \in 1..Len(v) : v[i] \in 48..57
    IN IF digits
         THEN /\ cl_decoded.v.tag = "Ok"
              /\ cl_decoded.v.v = strip_leading_zeros([i \in 1..Len(v) |-> v[i] - 48])
              /\ usize_le(cl_decoded.v.v, MAX_CONTENT_LENGTH)
         ELSE /\ cl_decoded.v.tag = "Err"
              /\ cl_decoded.v.v = "InvalidTypedHeader"

\* C14: try_from_header_raw returns Ok(ContentLength(0)) for the empty list
\* of raw values and InvalidTypedHeader for every list of more than one
\* value, whatever the values are.
C14_ValueCount ==
  RawDecoded =>
    /\ Len(cl_raw.v) = 0 =>
         cl_decoded.v.tag = "Ok" /\ cl_decoded.v.v = <<0>>
    /\ Len(cl_raw.v) > 1 =>
         cl_decoded.v.tag = "Err" /\ cl_decoded.v.v = "InvalidTypedHeader"

\* A list that repeats one valid number has been decoded.
C14_Witness ==
  /\ RawDecoded
  /\ Len(cl_raw.v) > 1
  /\ \A i \in 1..Len(cl_raw.v) :
       cl_raw.v[i] = cl_raw.v[1] /\ try_from_header_raw(<<cl_raw.v[i]>>).tag = "Ok"

\* C15: for every ContentLength v made by try_from(usize) or by Default,
\* to_header_raw(v) is exactly one raw value and
\* try_from_header_raw(to_header_raw(v)) is Ok(v).
C15_RoundTrip ==
  (cl_typed.tag = "Some" /\ cl_typed.v.tag = "Ok" /\ cl_raw.tag = "Some") =>
    /\ Len(cl_raw.v) = 1
    /\ cl_decoded.tag = "Some" =>
         cl_decoded.v.tag = "Ok" /\ cl_decoded.v.v = cl_typed.v.v

\* The largest ContentLength has been encoded and decoded again.
C15_Witness ==
  /\ cl_n.tag = "Some"
  /\ cl_n.v = MAX_CONTENT_LENGTH
  /\ cl_typed.tag = "Some"
  /\ cl_typed.v.tag = "Ok"
  /\ cl_decoded.tag = "Some"

\* ------------------------------------------------------------------------
\* Properties of both builders

\* Version texts that parse to a version other than RTSP/2.0
OtherVersions ==
  {text \in VersionInputs :
     Version_try_from(text).tag = "Ok" /\ Version_try_from(text).v # "RTSP20"}

\* C16: version(v) with a valid version other than RTSP/2.0 never changes
\* the builder's version and stores UnsupportedVersion; with that error
\* stored (no later mutator having stored another) the next build fails
\* with UnsupportedVersion; every Request or Response that build returns
\* carries RTSP/2.0.
C16_OnlyVersion20 ==
  [][ /\ rq'.version = rq.version
      /\ rs'.version = rs.version
      /\ \A text \in OtherVersions :
           /\ (rq' = request_version(rq, text) /\ rq_ret' = Self) =>
                rq'.error = Some("UnsupportedVersion")
           /\ (rs' = response_version(rs, text) /\ rs_ret' = Self) =>
                rs'.error = Some("UnsupportedVersion")
      /\ (RequestBuilt' /\ rq.error = Some("UnsupportedVersion")) =>
           rq_ret' = Err("UnsupportedVersion")
      /\ (ResponseBuilt' /\ rs.error = Some("UnsupportedVersion")) =>
           rs_ret' = Err("UnsupportedVersion")
      /\ rq_ret'.tag = "Ok" => rq_ret'.v.version = "RTSP20"
      /\ rs_ret'.tag = "Ok" => rs_ret'.v.version = "RTSP20"
    ]_vars

\* build has failed with UnsupportedVersion on a builder that holds a
\* method and a uri.
C16_Witness ==
  /\ rq_ret.tag = "Err"
  /\ rq_ret.v = "UnsupportedVersion"
  /\ rq.method.tag = "Some"
  /\ rq.uri.tag = "Some"
  /\ rq.version = "RTSP20"

\* The start line and the error of what build would return
RequestOutcome(b) ==
  LET r == request_build(b, "").ret
  IN  IF r.tag = "Ok"
        THEN <<"Ok", r.v.method, r.v.uri, r.v.version>>
        ELSE <<"Err", r.v>>

ResponseOutcome(b) ==
  LET r == response_build(b, "").ret
  IN  IF r.tag = "Ok"
        THEN <<"Ok", r.v.status_code, r.v.reason_phrase, r.v.version>>
        ELSE <<"Err", r.v>>

\* C17: into_typed and into_untyped preserve the builder's stored error and
\* its method, uri and version (for a response: status code, custom reason
\* phrase and version), so build after a conversion returns the same error
\* or the same start-line fields as build before it.
C17_ConversionPreserves ==
  [][ /\ rq_typed' # rq_typed =>
           /\ rq'.error = rq.error
           /\ rq'.method = rq.method
           /\ rq'.uri = rq.uri
           /\ rq'.version = rq.version
           /\ RequestOutcome(rq') = RequestOutcome(rq)
      /\ rs_typed' # rs_typed =>
           /\ rs'.error = rs.error
           /\ rs'.status_code = rs.status_code
           /\ rs'.custom_reason_phrase = rs.custom_reason_phrase
           /\ rs'.version = rs.version
           /\ ResponseOutcome(rs') = ResponseOutcome(rs)
    ]_vars

\* A builder that has been converted to typed headers and back holds a
\* stored error, a method and a Content-Length header written out again.
C17_Witness ==
  /\ ~rq_typed
  /\ rq.error.tag = "Some"
  /\ rq.method.tag = "Some"
  /\ \E i \in 1..Len(rq.headers) :
       HeaderName_eq(rq.headers[i].name, Standard("ContentLength"))

\* ------------------------------------------------------------------------
\* Properties of built messages

\* The fields in which two records of the same type differ
Changed(a, b) == {f \in DOMAIN a : a[f] # b[f]}

\* The field an accessor gives access to
FieldOf(via) ==
  [body_mut |-> "body", headers_mut |-> "headers", method_mut |-> "method",
   uri_mut |-> "uri", version_mut |-> "version",
   reason_mut |-> "reason_phrase", status_code_mut |-> "status_code"][via]

\* A step that acts on the Request, or Response, build returned before it
RequestKept == rq_ret.tag = "Ok" /\ rq_via' # "builder"
ResponseKept == rs_ret.tag = "Ok" /\ rs_via' # "builder"

Outcomes ==
  {Failure(x) : x \in {"UnsolicitedResponse", "BadStartLine", "TransportError",
                       "Timeout", "ConnectionClosed"}}
    \cup {Response(c) : c \in PeerCSeqs}

C20_CSeqCorrelation ==
  \A r \in Requests :
    \A i \in 1..Len(cn_fut[r].results) :
      LET x == cn_fut[r].results[i]
      IN  x.kind = "Ok" =>
            /\ x.cseq = cn_fut[r].cseq
            /\ \A o \in Requests \ {r} :
                 /\ cn_fut[o].cseq # x.cseq
                 /\ \A j \in 1..Len(cn_fut[o].results) : cn_fut[o].results[j] # x
            /\ lookup(cn_pending, x.cseq) = {}

\* The response to the second request has been delivered while the first
\* request is still pending.
C20_Witness ==
  \E a, b \in Requests :
    /\ cn_fut[a].cseq = 1
    /\ cn_fut[a].state = "waiting"
    /\ lookup(cn_pending, 1) # {}
    /\ cn_fut[b].cseq = 2
    /\ cn_fut[b].results = <<Response(2)>>

\* C21: a response whose CSeq matches no pending entry terminates the
\* connection: the reader exits, the connection is marked closed, the
\* pending table is emptied, and every request that was pending and still
\* awaited at that moment completes with ProtocolError::UnsolicitedResponse.
C21_UnsolicitedTerminates ==
  [][\A c \in PeerCSeqs :
       (ReaderReads(c) /\ lookup(cn_pending, c) = {}) =>
         /\ cn_reader' = "exited"
         /\ cn_closed'.tag = "Some"
         /\ cn_pending' = {}
         /\ \A e \in cn_pending :
              cn_fut[e.req].state = "waiting" =>
                /\ cn_fut'[e.req].state = "resolved"
                /\ cn_fut'[e.req].results = <<Failure("UnsolicitedResponse")>>]_vars

\* An unsolicited response arrived while two requests were pending
C21_Witness ==
  /\ cn_closed = Some("UnsolicitedResponse")
  /\ cn_reader = "exited"
  /\ \E r1, r2 \in Requests :
       /\ r1 # r2
       /\ cn_fut[r1].results = <<Failure("UnsolicitedResponse")>>
       /\ cn_fut[r2].results = <<Failure("UnsolicitedResponse")>>

C23_DropIsLocal ==
  [][/\ \A r \in Requests :
          Drops(r) =>
            /\ cn_closed'.tag = cn_closed.tag
            /\ cn_reader' = cn_reader
            /\ cn_writer' = cn_writer
            /\ \A o \in Requests \ {r} : cn_fut'[o] = cn_fut[o]
            /\ cn_fut'[r].results = <<>>
            /\ {<<e.cseq, e.req>> : e \in cn_pending'} = {<<e.cseq, e.req>> : e \in cn_pending}
     /\ \A c \in PeerCSeqs :
          (ReaderReads(c) /\ \E e \in lookup(cn_pending, c) : cn_fut[e.req].state = "dropped") =>
            /\ cn_fut' = cn_fut
            /\ cn_reader' = "running"
            /\ cn_closed'.tag = cn_closed.tag
            /\ lookup(cn_pending', c) = {}
            /\ \A o \in cn_pending : o.cseq # c => o \in cn_pending']_vars

\* The response for a dropped future arrived and was discarded, the
\* connection stayed open, and the other request then got its own response
C23_Witness ==
  /\ cn_closed.tag = "None"
  /\ cn_reader = "running"
  /\ \E r, o \in Requests :
       /\ cn_fut[r].state = "dropped"
       /\ cn_fut[r].cseq = 1
       /\ cn_fut[r].results = <<>>
       /\ cn_fut[o].results = <<Response(2)>>
       /\ cn_pending = {}

\* The request with CSeq c has timed out
timed_out(c) ==
  \E r \in Requests : cn_fut[r].cseq = c /\ cn_fut[r].results = <<Failure("Timeout")>>

\* The expiry of one deadline touches that request only: its future
\* completes with Timeout, its entry is removed, every other future and
\* entry is as before, and the connection and both tasks are as before
ExpiryIsLocal ==
  \A e \in cn_pending :
    Expires(e) =>
      /\ cn_fut'[e.req].state = "resolved"
      /\ cn_fut'[e.req].results = <<Failure("Timeout")>>
      /\ \A o \in Requests \ {e.req} : cn_fut'[o] = cn_fut[o]
      /\ cn_pending' = cn_pending \ {e}
      /\ cn_closed'.tag = cn_closed.tag
      /\ cn_reader' = cn_reader
      /\ cn_writer' = cn_writer

\* C24 as stated: a timeout is local to the one request, and stays so when
\* the response for the timed-out CSeq arrives afterwards: that response
\* fails no other request and does not terminate the connection.
C24_TimeoutLocalEvenLate ==
  [][/\ ExpiryIsLocal
     /\ \A c \in PeerCSeqs :
          (ReaderReads(c) /\ timed_out(c)) =>
            /\ cn_reader' = "running"
            /\ cn_closed'.tag = cn_closed.tag
            /\ cn_fut' = cn_fut]_vars

\* C24, amended: the expiry itself is local to the one request; a response
\* that arrives afterwards for the timed-out CSeq finds no pending entry,
\* is unsolicited, and terminates the connection: the reader exits, the
\* connection is closed and every request still pending completes with
\* UnsolicitedResponse, while the timed-out future keeps its Timeout.
C24_TimeoutLocalLateUnsolicited ==
  [][/\ ExpiryIsLocal
     /\ \A c \in PeerCSeqs :
          (ReaderReads(c) /\ timed_out(c)) =>
            /\ lookup(cn_pending, c) = {}
            /\ cn_reader' = "exited"
            /\ cn_closed'.tag = "Some"
            /\ cn_pending' = {}
            /\ \A r \in Requests :
                 IF \E e \in cn_pending : e.req = r /\ cn_fut[r].state = "waiting"
                   THEN cn_fut'[r].results = <<Failure("UnsolicitedResponse")>>
                   ELSE cn_fut'[r] = cn_fut[r]]_vars

\* One request timed out and the other, still pending, was failed by a
\* response that matched no pending entry
C24_Witness ==
  /\ cn_closed = Some("UnsolicitedResponse")
  /\ \E r, o \in Requests :
       /\ cn_fut[r].cseq = 1
       /\ cn_fut[r].results = <<Failure("Timeout")>>
       /\ cn_fut[o].cseq = 2
       /\ cn_fut[o].results = <<Failure("UnsolicitedResponse")>>

\* C25: when the reader hits a decode error every request pending at that
\* moment completes with that error and the connection closes; the
\* connection stays closed, and every send_request issued on a closed
\* connection resolves to ConnectionClosed without being enqueued.
C25_DecodeErrorFatal ==
  [][/\ ReaderFailsWith("BadStartLine") =>
          /\ cn_closed'.tag = "Some"
          /\ cn_reader' = "exited"
          /\ cn_pending' = {}
          /\ \A e \in cn_pending :
               cn_fut[e.req].state = "waiting" =>
                 /\ cn_fut'[e.req].state = "resolved"
                 /\ cn_fut'[e.req].results = <<Failure("BadStartLine")>>
     /\ cn_closed.tag = "Some" => cn_closed'.tag = "Some"
     /\ \A r \in Requests, deadline \in BOOLEAN :
          (Sends(r, deadline) /\ cn_closed.tag = "Some") =>
            /\ cn_fut'[r].state = "resolved"
            /\ cn_fut'[r].results = <<Failure("ConnectionClosed")>>
            /\ cn_queue' = cn_queue
            /\ cn_pending' = cn_pending]_vars

\* A decode error failed the pending request, and the request sent after
\* it resolved to ConnectionClosed without ever being given a CSeq
C25_Witness ==
  /\ cn_closed = Some("BadStartLine")
  /\ \E r, o \in Requests :
       /\ cn_fut[r].results = <<Failure("BadStartLine")>>
       /\ cn_fut[o].results = <<Failure("ConnectionClosed")>>
       /\ cn_fut[o].cseq = 0
       /\ o \notin {cn_sent[i] : i \in 1..Len(cn_sent)}

\* ------------------------------------------------------------------------
\* Properties of the encoder

\* Where the first CRLF of a byte string starts
line_end(bytes) ==
  CHOOSE i \in 1..(Len(bytes) - 1) :
    /\ bytes[i] = 13 /\ bytes[i + 1] = 10
    /\ \A j \in 1..(i - 1) : ~(bytes[j] = 13 /\ bytes[j + 1] = 10)

RECURSIVE head_lines(_)
\* The lines of the head of a message on the wire, up to the blank line
head_lines(bytes) ==
  LET i == line_end(bytes)
  IN  IF i = 1 THEN <<>>
      ELSE <<SubSeq(bytes, 1, i - 1)>> \o head_lines(SubSeq(bytes, i + 2, Len(bytes)))

\* The header lines: every line of the head after the start line
wire_headers(bytes) == Tail(head_lines(bytes))

\* "content-length:"
ContentLengthPrefix ==
  <<99, 111, 110, 116, 101, 110, 116, 45, 108, 101, 110, 103, 116, 104, 58>>

\* Whether a header line is a Content-Length line
is_content_length(line) ==
  /\ Len(line) >= Len(ContentLengthPrefix)
  /\ to_ascii_lowercase(SubSeq(line, 1, Len(ContentLengthPrefix))) = ContentLengthPrefix

\* The values the message holds for Content-Length
held_content_length(msg) ==
  UNION {{msg.headers[i].values[k] : k \in 1..Len(msg.headers[i].values)} :
           i \in {i \in 1..Len(msg.headers) :
                    HeaderName_eq(msg.headers[i].name, Standard("ContentLength"))}}

\* C26: the bytes an encoded message puts on the wire hold exactly one
\* Content-Length header line, whatever Content-Length values the message
\* held, and the number on that line is the length of the body: it reads
\* "Content-Length: " followed by the decimal digits of the body length.
C26_ContentLengthForced ==
  en_out.tag = "Some" =>
    LET lines == wire_headers(en_out.v)
        at == {i \in 1..Len(lines) : is_content_length(lines[i])}
        n == usize_from(Len(en_msg.body))
    IN  /\ Cardinality(at) = 1
        /\ \A i \in at :
             /\ SubSeq(lines[i], 1, 16) = canonical_name(Standard("ContentLength")) \o <<58, 32>>
             /\ SubSeq(lines[i], 17, Len(lines[i])) = usize_to_string(n)
             /\ parse_usize(SubSeq(lines[i], 17, Len(lines[i]))) = Ok(n)

\* A message that held Content-Length 999 and 21 with a body of 5 bytes
\* has been encoded
C26_Witness ==
  /\ en_out.tag = "Some"
  /\ Len(en_msg.body) = 5
  /\ held_content_length(en_msg) = { <<57, 57, 57>>, <<50, 49>> }

\* ------------------------------------------------------------------------
\* Properties of header, of a stored error and of a failed build

\* The keys that are no header name, "" and "bad key", and the value that
\* is no header value, "a\nb"
InvalidKeys == { <<>>, <<98, 97, 100, 32, 107, 101, 121>> }
InvalidValues == { <<97, 10, 98>> }

\* The values a header map holds for name n, in order
values_of(map, n) ==
  IF \E i \in 1..Len(map) : HeaderName_eq(map[i].name, n)
    THEN map[CHOOSE i \in 1..Len(map) : HeaderName_eq(map[i].name, n)].values
    ELSE <<>>

\* What header(key, val) must have done to builder b, leaving builder after
HeaderOutcome(b, after, key, val) ==
  IF key \in InvalidKeys
    THEN after.error = Some("InvalidHeaderName") /\ after.headers = b.headers
  ELSE IF val \in InvalidValues
    THEN after.error = Some("InvalidHeaderValue") /\ after.headers = b.headers
  ELSE LET n == try_from(key).v
       IN  /\ after.error = b.error
           /\ values_of(after.headers, n) = Append(values_of(b.headers, n), val)
           /\ HeaderMap_len(after.headers) = HeaderMap_len(b.headers) + 1
           /\ \A i \in 1..Len(b.headers) :
                /\ after.headers[i].name = b.headers[i].name
                /\ ~HeaderName_eq(b.headers[i].name, n) => after.headers[i] = b.headers[i]

\* Whether a step from builder b to builder after can be the call
\* header(key, val): a header call leaves the method, uri, status code,
\* reason phrase and version alone and either adds val to the header map
\* or leaves the map alone and one of its two errors in the builder
MayBeHeader(b, after, val) ==
  IF after.headers # b.headers
    THEN \E i \in 1..Len(after.headers) :
           \E k \in 1..Len(after.headers[i].values) : after.headers[i].values[k] = val
    ELSE after.error \in {Some("InvalidHeaderName"), Some("InvalidHeaderValue")}

\* C27: header(k, v) on an untyped request or response builder stores
\* InvalidHeaderName when k is no header name, also when v is invalid too;
\* stores InvalidHeaderValue when k is a name and v is no header value; the
\* header map is unchanged in both cases; and when both are valid the value
\* is appended after the values the map already holds for that name, every
\* other entry and the stored error staying as they were.
C27_HeaderOutcome ==
  [][/\ (~rq_typed /\ rq_ret' = Self) =>
          \A val \in HeaderValueInputs :
            MayBeHeader(rq, rq', val) =>
              \A key \in HeaderKeyInputs :
                rq' = request_header(rq, key, val) => HeaderOutcome(rq, rq', key, val)
     /\ (~rs_typed /\ rs_ret' = Self) =>
          \A val \in HeaderValueInputs :
            MayBeHeader(rs, rs', val) =>
              \A key \in HeaderKeyInputs :
                rs' = response_header(rs, key, val) => HeaderOutcome(rs, rs', key, val)]_vars

\* "5" was appended under the key "cseq" to a map that held "835" for CSeq,
\* and a later header call then stored InvalidHeaderName
C27_Witness ==
  /\ rq_ret = Self
  /\ rq.error = Some("InvalidHeaderName")
  /\ values_of(rq.headers, Standard("CSeq")) = << <<56, 51, 53>>, <<53>> >>

\* ------------------------------------------------------------------------
\* Properties of whitespace around a Content-Length value

\* The value without the spaces and tabs it starts with
without_leading_whitespace(v) ==
  LET n == Cardinality({i \in 1..Len(v) : \A j \in 1..i : v[j] \in {32, 9}})
  IN  SubSeq(v, n + 1, Len(v))

\* C28: try_from_header_raw drops whitespace before the value and none
\* after it: " 10" decodes to ContentLength(10), and so does every value
\* whose digits follow spaces and tabs, each decoding as the value without
\* them does; "10 " and every value that ends in a space or tab is rejected
\* with InvalidTypedHeader.
C28_LeadingWhitespaceOnly ==
  (RawDecoded /\ Len(cl_raw.v) = 1) =>
    LET v == cl_raw.v[1]
    IN  /\ v = <<32, 49, 48>> => cl_decoded.v = Ok(<<1, 0>>)
        /\ v = <<49, 48, 32>> => cl_decoded.v = Err("InvalidTypedHeader")
        /\ cl_decoded.v.tag = try_from_header_raw(<<without_leading_whitespace(v)>>).tag
        /\ cl_decoded.v.tag = "Ok" =>
             /\ v[Len(v)] \in 48..57
             /\ cl_decoded.v.v = try_from_header_raw(<<without_leading_whitespace(v)>>).v
        /\ (v # <<>> /\ v[Len(v)] \in {32, 9}) => cl_decoded.v = Err("InvalidTypedHeader")

\* " \t10" was decoded to 10
C28_Witness ==
  /\ RawDecoded
  /\ cl_raw.v = << <<32, 9, 49, 48>> >>
  /\ cl_decoded.v.tag = "Ok"
  /\ cl_decoded.v.v = <<1, 0>>

\* C29: once a mutator has stored an error in a request or response
\* builder, no later call clears it (a later mutator may store another
\* error in its place); every build on a builder that holds an error
\* returns that error, and leaves the builder as it was: its method, uri,
\* status code, reason phrase, headers and version, and the error itself.
C29_ErrorIsSticky ==
  [][/\ rq.error.tag = "Some" => rq'.error.tag = "Some"
     /\ rs.error.tag = "Some" => rs'.error.tag = "Some"
     /\ (rq.error.tag = "Some" /\ rq_ret'.tag # "Builder") =>
          /\ rq_ret'.tag = "Err"
          /\ rq_ret'.v = rq.error.v
          /\ rq'.method = rq.method
          /\ rq'.uri = rq.uri
          /\ rq'.headers = rq.headers
          /\ rq'.version = rq.version
     /\ (rs.error.tag = "Some" /\ rs_ret'.tag # "Builder") =>
          /\ rs_ret'.tag = "Err"
          /\ rs_ret'.v = rs.error.v
          /\ rs'.status_code = rs.status_code
          /\ rs'.custom_reason_phrase = rs.custom_reason_phrase
          /\ rs'.headers = rs.headers
          /\ rs'.version = rs.version]_vars

\* A request builder with a method, a uri and a header has failed to build
\* with the error a mutator stored, and still holds all of them
C29_Witness ==
  /\ rq.error = Some("InvalidHeaderValue")
  /\ rq_ret = Err("InvalidHeaderValue")
  /\ rq.method.tag = "Some"
  /\ rq.uri.tag = "Some"
  /\ rq.headers # HeaderMap_default

\* C30: a request build that fails with MissingRequestURI found the method
\* set and unsets it, leaving the headers and the version untouched, so
\* that setting only a uri afterwards and building again fails with
\* MissingMethod; a build that fails with MissingMethod changes nothing in
\* the builder: a uri already set, the headers and the version are kept.
C30_FailedBuildTakesMethod ==
  [][/\ (RequestBuilt' /\ rq_ret' = Err("MissingRequestURI")) =>
          /\ rq.error = None
          /\ rq.method.tag = "Some"
          /\ rq'.method = None
          /\ rq'.uri = None
          /\ rq'.headers = rq.headers
          /\ rq'.version = rq.version
          /\ rq'.error = None
          /\ \A u \in ValidRequestURIs, body \in Bodies :
               LET again == request_build(request_uri(rq', u), body)
               IN  /\ again.ret = Err("MissingMethod")
                   /\ again.builder.uri = Some(u)
     /\ (RequestBuilt' /\ rq_ret' = Err("MissingMethod")) =>
          /\ rq.method = None
          /\ rq' = rq]_vars

\* A build has failed with MissingMethod on a builder that holds a uri and
\* a header, as after a build without uri, then uri, then build
C30_Witness ==
  /\ rq_ret = Err("MissingMethod")
  /\ rq.method = None
  /\ rq.uri.tag = "Some"
  /\ rq.headers # HeaderMap_default

====
